---- MODULE Spec2Model ----
(***************************************************************************)
(* A model of the retrieval-augmented matching pipeline of the CTCAE       *)
(* standardizer: SymptomMatcher.match_symptom (src/src/symptom_matcher.py) *)
(* and search_term_store (src/src/vectorstore.py), and of the indexing run *)
(* that fills the vector store: setup_vector_store followed by             *)
(* add_terms_to_vectorstore (src/src/vectorstore.py), as                   *)
(* scripts/create_vector_store.py runs them.                               *)
(*                                                                         *)
(* Strings are sequences of tokens (each token a TLA+ string standing for  *)
(* one lexical chunk of text), so that concatenation, strip, find, rfind   *)
(* and slicing are computed as the code computes them.  Python values that *)
(* end up in a result dict are tagged: PyStr(s) for a str, PyNone for None.*)
(***************************************************************************)
EXTENDS Integers, Sequences, FiniteSets, TLC

\* ---------------------------------------------------------------- bounds
\* longest hit list the backend returns in the model
MaxHits == 2
\* longest raw text (in tokens) the language model returns in the model
MaxRaw == 4

\* ------------------------------------------------------ program constants
\* k of the term search
TermK == 3
\* k of the grade-description search
GradeK == 5

VARIABLES
    index,          \* the documents stored in the vector store (metadata of each)
    symptom,        \* argument of match_symptom
    details,        \* argument of match_symptom
    pc,             \* position of the call inside match_symptom
    searches,       \* the similarity searches issued to the backend so far, with their outcomes
    term_results,   \* local of match_symptom
    grade_results,  \* local of match_symptom
    context,        \* local of match_symptom
    llm_calls,      \* the completion calls issued so far, with their outcomes
    response,       \* local of match_symptom (raw text, then stripped)
    result,         \* the value match_symptom returned (NoResult before it returns)
    exc,            \* the exception match_symptom propagated ("" when none)
    terms,          \* argument of add_terms_to_vectorstore: the TermRecord list
    run,            \* which indexing run is under way: "first" or "second"
    ix_pc,          \* position of the indexing run ("idle" when none is under way)
    deletion,       \* what the reset of this run did: "", "ok" or "failed"
    documents,      \* local of add_terms_to_vectorstore
    batch_i,        \* local of add_terms_to_vectorstore: the loop variable i
    total_added,    \* local of add_terms_to_vectorstore
    start_len,      \* number of stored documents when add_terms_to_vectorstore began
    writes,         \* the add_documents calls of this run, with their outcomes
    counts,         \* the count each finished indexing run returned, with what
                    \* its reset did and the collection as the run left it
    other,          \* the locals of a second match_symptom call on the same
                    \* SymptomMatcher, in flight at the same time
    sheet,          \* process_ctcae: the mapped grade columns and the rows of
                    \* the sheet that was found
    row_i,          \* process_ctcae: the number of rows the row loop has taken
    records,        \* process_ctcae: the local terms, the canonical record list
    ing_pc,         \* position of process_ctcae ("idle" when it is not run)
    reply,          \* the HTTP response of the /match handler to the request
                    \* it serves (no status while there is none)
    processor       \* a CTCAEProcessor (self.terms, self.categories), the last
                    \* call made on it with what it gave, and the list a caller
                    \* holds from get_term_categories

\* the state of the match_symptom call, the index aside
mvars == <<symptom, details, pc, searches, term_results, grade_results,
           context, llm_calls, response, result, exc>>

\* the state of the indexing run, the index aside
ixvars == <<terms, run, ix_pc, deletion, documents, batch_i, total_added,
            start_len, writes, counts>>

vars == <<index, symptom, details, pc, searches, term_results, grade_results,
          context, llm_calls, response, result, exc, terms, run, ix_pc, deletion,
          documents, batch_i, total_added, start_len, writes, counts, other,
          sheet, row_i, records, ing_pc, reply, processor>>

\* the state of process_ctcae
ingvars == <<sheet, row_i, records, ing_pc>>

\* ------------------------------------------------------- Python values
PyStr(s) == <<"str", s>>
PyNone == <<"None">>
EmptyDict == [key \in {} |-> PyNone]
\* result before match_symptom returns: no key at all (a returned dict always
\* has the key original_symptom)
NoResult == EmptyDict

\* d with d[key] = value, as the assignment d[key] = value leaves a dict
DictSet(d, key, value) ==
    [x \in DOMAIN d \cup {key} |-> IF x = key THEN value ELSE d[x]]

\* bool(s) of a str
Truthy(s) == Len(s) > 0

\* ---------------------------------------------------- stored documents
\* metadata of the document add_terms_to_vectorstore creates for a term
TermDoc(name, soc, definition, code) ==
    [ctcae_term |-> name, meddra_soc |-> soc, definition |-> definition,
     meddra_code |-> code, doc_type |-> "term"]

\* metadata of the document add_terms_to_vectorstore creates for a grade
GradeDoc(name, soc, grade, description) ==
    [ctcae_term |-> name, grade |-> grade, description |-> description,
     meddra_soc |-> soc, doc_type |-> "grade_description"]

\* a populated index: two terms, one of them with two grade descriptions
SampleIndex ==
    << TermDoc("Nausea", "Gastrointestinal disorders", "queasy sensation", "10028813"),
       GradeDoc("Nausea", "Gastrointestinal disorders", "1", "loss of appetite"),
       GradeDoc("Nausea", "Gastrointestinal disorders", "2", "oral intake decreased"),
       TermDoc("Headache", "Nervous system disorders", "pain in the head", "10019211") >>

\* ------------------------------------------------------ the index backend
\* similarity scores are the dyadic fractions n/32, kept as the numerator n
ScoreNums == {3, 28}

Min(a, b) == IF a <= b THEN a ELSE b

\* positions of the stored documents a filter selects when a document
\* without the filtered key passes the filter
MatchingOrUntagged(idx, filter) ==
    {i \in 1..Len(idx) :
        \A key \in DOMAIN filter : key \in DOMAIN idx[i] => idx[i][key] = filter[key]}

\* positions of the stored documents a metadata filter selects
Matching(idx, filter) ==
    {i \in 1..Len(idx) :
        \A key \in DOMAIN filter : key \in DOMAIN idx[i] /\ idx[i][key] = filter[key]}

\* a well-formed hit: the (Document, score) pair of a stored document
Hit(meta, score) == [shape |-> "ok", metadata |-> meta, score |-> score]

\* what a malformed hit can be: a pair whose score is None (TypeError in the
\* format), a pair whose first component has no metadata (AttributeError), or
\* a bare Document in place of a pair (TypeError in the unpacking)
MalformedShapes == {"bad_score", "no_metadata", "not_pair"}

\* the well-formed answers of similarity_search_with_score: at most k of the
\* documents the filter selects, each at most once, in the backend's order
HitLists(idx, k, filter) ==
    UNION { { [i \in 1..n |-> Hit(idx[f[i][1]], f[i][2])] :
                f \in { g \in [1..n -> Matching(idx, filter) \X ScoreNums] :
                          \A i, j \in 1..n : i # j => g[i][1] # g[j][1] } } :
            n \in 0..Min(k, MaxHits) }

\* a malformed answer: a list holding one malformed hit of a stored document
MalformedLists(idx, filter) ==
    { << [shape |-> sh, metadata |-> idx[m], score |-> 0] >> :
        sh \in MalformedShapes, m \in Matching(idx, filter) }

\* every behaviour of vectorstore.similarity_search_with_score(query, k, filter)
BackendOutcomes(idx, k, filter) ==
    {[raises |-> TRUE, hits |-> << >>]}
    \cup {[raises |-> FALSE, hits |-> h] :
            h \in HitLists(idx, k, filter) \cup MalformedLists(idx, filter)}

\* search_term_store without its try/except: a backend failure leaves the call
search_term_store_unguarded(outcome) ==
    [raises |-> outcome.raises, value |-> outcome.hits]

\* search_term_store: the backend's answer, or [] when the backend raised;
\* raises tells whether the call lets an exception out (the except clause
\* catches every Exception of the backend call, so it never does)
search_term_store(outcome) ==
    IF outcome.raises
    THEN [raises |-> FALSE, value |-> << >>]
    ELSE [raises |-> FALSE, value |-> outcome.hits]

\* the record of one backend call and of what the backend did
SearchCall(query, k, filter, outcome) ==
    [query |-> query, k |-> k, filter |-> filter, outcome |-> outcome]

\* -------------------------------------------------------- context assembly
NL == <<"\n">>

\* f"{metadata.get(key)}": the value, or the text None when the key is absent
FmtGet(meta, key) == IF key \in DOMAIN meta THEN meta[key] ELSE "None"

Pad4(n) ==
    IF n < 10 THEN "000" \o ToString(n)
    ELSE IF n < 100 THEN "00" \o ToString(n)
    ELSE IF n < 1000 THEN "0" \o ToString(n)
    ELSE ToString(n)

\* f"{score:.4f}" of the score n/32: n/32 = n * 0.03125 exactly, rounded to
\* four decimals, ties to even
Fmt4(n) ==
    LET v == n * 3125
        q == v \div 10
        r == v % 10
        up == r > 5 \/ (r = 5 /\ q % 2 = 1)
        t == IF up THEN q + 1 ELSE q
    IN  ToString(t \div 10000) \o "." \o Pad4(t % 10000)

\* the block of one hit, as a sequence of lines separated by newlines
Block(hit) ==
    LET m == hit.metadata IN
    IF "doc_type" \in DOMAIN m /\ m["doc_type"] = "term"
    THEN << <<"CTCAE Term: ", FmtGet(m, "ctcae_term")>>, NL,
            <<"MedDRA SOC: ", FmtGet(m, "meddra_soc")>>, NL,
            <<"Definition: ", FmtGet(m, "definition")>>, NL,
            <<"Similarity: ", Fmt4(hit.score)>> >>
    ELSE << <<"CTCAE Term: ", FmtGet(m, "ctcae_term")>>, NL,
            <<"Grade: ", FmtGet(m, "grade")>>, NL,
            <<"Description: ", FmtGet(m, "description")>>, NL,
            <<"Similarity: ", Fmt4(hit.score)>> >>

\* "\n\n".join(parts)
RECURSIVE JoinBlankLine(_)
JoinBlankLine(parts) ==
    IF Len(parts) = 0 THEN << >>
    ELSE IF Len(parts) = 1 THEN parts[1]
    ELSE parts[1] \o <<NL, NL>> \o JoinBlankLine(Tail(parts))

\* all_results with the grade hits first
AllResultsGradesFirst(term_hits, grade_hits) == grade_hits \o term_hits

\* all_results = term_results + grade_results
AllResults(term_hits, grade_hits) == term_hits \o grade_hits

\* the exception the loop over all_results raises, "" when it raises none
AssembleError(all) ==
    IF \E i \in 1..Len(all) : all[i].shape # "ok"
    THEN LET first == CHOOSE i \in 1..Len(all) :
                        /\ all[i].shape # "ok"
                        /\ \A j \in 1..(i - 1) : all[j].shape = "ok"
         IN  IF all[first].shape = "no_metadata" THEN "AttributeError" ELSE "TypeError"
    ELSE ""

\* a context that is a placeholder line when there is no hit
BuildContextPlaceholder(all) ==
    IF Len(all) = 0
    THEN << <<"No reference information found.", "">> >>
    ELSE JoinBlankLine([i \in 1..Len(all) |-> Block(all[i])])

\* context = "\n\n".join(context_parts)
BuildContext(all) == JoinBlankLine([i \in 1..Len(all) |-> Block(all[i])])

\* ------------------------------------------------------ the language model
\* the tokens of a raw text: braces, whitespace, a word of prose, a comma, and
\* one token per complete key/value pair "key": "value" of a JSON object
PairTokens == {"ctcae_term", "error", "raw_response", "original_symptom", "details"}

Alphabet == {"{", "}", " ", "w", ","} \cup PairTokens

\* the pair tokens of the other keys the prompt asks the model for; they
\* occur in the longer sample texts only
FieldTokens == {"grade", "grade_description", "meddra_soc", "confidence", "rationale"}

\* the pair tokens a JSON object can be made of
ObjectTokens == PairTokens \cup FieldTokens

\* the value the pair token of a key carries
PairValue(key) ==
    CASE key = "ctcae_term" -> PyStr(<<"Nausea">>)
      [] key = "error" -> PyStr(<<"model-made error">>)
      [] key = "raw_response" -> PyStr(<<"model-made raw response">>)
      [] key = "original_symptom" -> PyStr(<<"model-made symptom">>)
      [] key \in FieldTokens -> PyStr(<<"model-made value">>)
      [] OTHER -> PyStr(<<"model-made details">>)

\* every text of at most n tokens
Texts(n) == UNION {[1..m -> Alphabet] : m \in 0..n}

\* a few texts: prose only, an empty object, an object wrapped in whitespace and prose
SampleTexts ==
    { <<"w">>, <<"{", "}">>, <<" ", "{", "ctcae_term", "}", "w">> }

\* the messages of the errors the completion call raises
LlmErrors == { <<"Request timed out.">>, <<"Rate limit reached">> }

\* every behaviour of chain.run(...): it raises, or it returns one of the texts
LlmOutcomes(texts) ==
    {[raises |-> TRUE, text |-> << >>, message |-> msg] : msg \in LlmErrors}
    \cup {[raises |-> FALSE, text |-> t, message |-> << >>] : t \in texts}

\* the record of one completion call and of what the language model did
LlmCall(sym, det, ctx, outcome) ==
    [symptom |-> sym, details |-> det, context |-> ctx, outcome |-> outcome]

\* ------------------------------------------------------------ result parser
SetMin(S) == CHOOSE x \in S : \A y \in S : x <= y
SetMax(S) == CHOOSE x \in S : \A y \in S : x >= y

\* str.lstrip(): without its leading whitespace only
LStripOnly(s) ==
    LET solid == {i \in 1..Len(s) : s[i] # " "} IN
    IF solid = {} THEN << >> ELSE SubSeq(s, SetMin(solid), Len(s))

\* str.strip(): without its leading and trailing whitespace
Strip(s) ==
    LET solid == {i \in 1..Len(s) : s[i] # " "} IN
    IF solid = {} THEN << >> ELSE SubSeq(s, SetMin(solid), SetMax(solid))

\* str.find(c): the 0-based position of the first c, -1 when there is none
Find(s, c) ==
    LET at == {i \in 1..Len(s) : s[i] = c} IN
    IF at = {} THEN -1 ELSE SetMin(at) - 1

\* str.rfind(c): the 0-based position of the last c, -1 when there is none
RFind(s, c) ==
    LET at == {i \in 1..Len(s) : s[i] = c} IN
    IF at = {} THEN -1 ELSE SetMax(at) - 1

\* s[a:b] for 0 <= a <= b
Slice(s, a, b) == SubSeq(s, a + 1, Min(b, Len(s)))

NotSpace(c) == c # " "

\* json.loads(text): the object text denotes, or a JSONDecodeError.  Over the
\* alphabet a text is JSON exactly when, whitespace between tokens aside, it is
\* a "{", pairs separated by single commas (or nothing), and a "}"
JsonLoads(text) ==
    LET body == SelectSeq(text, NotSpace)
        n == Len(body)
        inner == SubSeq(body, 2, n - 1)
        m == Len(inner)
        wellformed ==
            /\ n >= 2
            /\ body[1] = "{"
            /\ body[n] = "}"
            /\ \/ m = 0
               \/ /\ m % 2 = 1
                  /\ \A i \in 1..m :
                        IF i % 2 = 1 THEN inner[i] \in ObjectTokens ELSE inner[i] = ","
    IN  IF wellformed
        THEN [ok |-> TRUE,
              value |-> [key \in {inner[i] : i \in {j \in 1..m : j % 2 = 1}}
                            |-> PairValue(key)]]
        ELSE [ok |-> FALSE, value |-> EmptyDict]

ParseErrorMessage == <<"Failed to parse LLM response as JSON">>

\* details as given, the empty string included
DetailsAsGiven(det) == PyStr(det)

\* details if details else None
DetailsOrNone(det) == IF Truthy(det) THEN PyStr(det) ELSE PyNone

\* the dict returned when no valid JSON could be parsed
ParseFailure(sym, det, resp) ==
    [original_symptom |-> PyStr(sym),
     details |-> DetailsOrNone(det),
     error |-> PyStr(ParseErrorMessage),
     raw_response |-> PyStr(resp)]

\* the except branch with a fixed message in place of str(e)
GenerationFailureFixedMessage(sym, det, message) ==
    [original_symptom |-> PyStr(sym),
     details |-> DetailsOrNone(det),
     error |-> PyStr(<<"Error matching symptom">>)]

\* the dict returned from the except branch of the generation step
GenerationFailure(sym, det, message) ==
    [original_symptom |-> PyStr(sym),
     details |-> DetailsOrNone(det),
     error |-> PyStr(message)]

\* the success dict as one flat struct: error is always present, None here
ParseSuccessFlat(parsed, sym, det) ==
    LET r == DictSet(DictSet(parsed, "original_symptom", PyStr(sym)), "error", PyNone) IN
    IF Truthy(det) THEN DictSet(r, "details", PyStr(det)) ELSE r

\* the success dict with result.setdefault("original_symptom", symptom): a
\* value the model supplied under that key is kept
ParseSuccessSetDefault(parsed, sym, det) ==
    LET r == IF "original_symptom" \in DOMAIN parsed
             THEN parsed
             ELSE DictSet(parsed, "original_symptom", PyStr(sym)) IN
    IF Truthy(det) THEN DictSet(r, "details", PyStr(det)) ELSE r

\* the dict returned after json.loads succeeded
ParseSuccess(parsed, sym, det) ==
    LET r == DictSet(parsed, "original_symptom", PyStr(sym)) IN
    IF Truthy(det) THEN DictSet(r, "details", PyStr(det)) ELSE r

\* the result of the statements after chain.run returned: strip, find the
\* braces, parse what is between them
ParseResponse(raw, sym, det) ==
    LET resp == Strip(raw)
        start_idx == Find(resp, "{")
        end_idx == RFind(resp, "}")
    IN  IF start_idx # -1 /\ end_idx # -1 /\ end_idx > start_idx
        THEN LET json_str == Slice(resp, start_idx, end_idx + 1)
                 parsed == JsonLoads(json_str)
             IN  IF parsed.ok
                 THEN ParseSuccess(parsed.value, sym, det)
                 ELSE ParseFailure(sym, det, resp)
        ELSE ParseFailure(sym, det, resp)

\* ------------------------------------------------------------------ inputs
Symptoms == { <<"headache">>, <<"severe", " ", "nausea">> }
DetailsValues == { << >>, <<"after chemotherapy">> }

TermFilter == [doc_type |-> "term"]
GradeFilter == [doc_type |-> "grade_description"]

\* the query of the grade search without the trailing space of empty details
GradeQueryTrimmed(sym, det) == IF det = << >> THEN sym ELSE sym \o <<" ">> \o det

\* the query of the grade search: symptom + " " + details
GradeQuery(sym, det) == sym \o <<" ">> \o det

\* --------------------------------------------------------------- the call
\* the /match handler has not responded, or serves no request
NoReply == [status |-> 0]

\* no CTCAEProcessor has been made
NoProcessor ==
    [terms |-> << >>, categories |-> << >>, call |-> << >>, outcome |-> << >>,
     held |-> << >>]

\* process_ctcae is not run
IngestIdle ==
    /\ sheet = [mapped |-> {}, rows |-> << >>]
    /\ row_i = 0
    /\ records = << >>
    /\ ing_pc = "idle"

\* the locals of a match_symptom call that has not been made
IdleCall ==
    [symptom |-> << >>, details |-> << >>, pc |-> "idle", searches |-> << >>,
     term_results |-> << >>, grade_results |-> << >>, context |-> << >>,
     llm_calls |-> << >>, response |-> << >>, result |-> NoResult, exc |-> "",
     observed |-> << >>]

\* no indexing run is under way
IndexerIdle ==
    /\ terms = << >>
    /\ run = "first"
    /\ ix_pc = "idle"
    /\ deletion = ""
    /\ documents = << >>
    /\ batch_i = 0
    /\ total_added = 0
    /\ start_len = 0
    /\ writes = << >>
    /\ counts = << >>

Init ==
    /\ index \in {<< >>, SampleIndex}
    /\ symptom \in Symptoms
    /\ details \in DetailsValues
    /\ pc = "terms"
    /\ searches = << >>
    /\ term_results = << >>
    /\ grade_results = << >>
    /\ context = << >>
    /\ llm_calls = << >>
    /\ response = << >>
    /\ result = NoResult
    /\ exc = ""
    /\ IndexerIdle
    /\ other = IdleCall
    /\ IngestIdle
    /\ reply = NoReply
    /\ processor = NoProcessor

\* Step 1: term_results = search_term_store(store, symptom, k=3, doc_type term);
\* the call is outside every try, so an exception it let out would leave match_symptom
SearchTerms ==
    /\ pc = "terms"
    /\ \E outcome \in BackendOutcomes(index, TermK, TermFilter) :
          LET r == search_term_store(outcome) IN
          /\ searches' = Append(searches, SearchCall(symptom, TermK, TermFilter, outcome))
          /\ IF r.raises
             THEN /\ exc' = "BackendError"
                  /\ pc' = "raised"
                  /\ UNCHANGED term_results
             ELSE /\ term_results' = r.value
                  /\ pc' = "grades"
                  /\ UNCHANGED exc
    /\ UNCHANGED <<index, symptom, details, grade_results, context, llm_calls,
                   response, result>>
    /\ UNCHANGED ixvars
    /\ UNCHANGED other
    /\ UNCHANGED ingvars
    /\ UNCHANGED reply
    /\ UNCHANGED processor

\* Step 2: grade_results = search_term_store(store, symptom + " " + details,
\* k=5, doc_type grade_description)
SearchGrades ==
    /\ pc = "grades"
    /\ \E outcome \in BackendOutcomes(index, GradeK, GradeFilter) :
          LET r == search_term_store(outcome) IN
          /\ searches' = Append(searches,
                 SearchCall(GradeQuery(symptom, details), GradeK, GradeFilter, outcome))
          /\ IF r.raises
             THEN /\ exc' = "BackendError"
                  /\ pc' = "raised"
                  /\ UNCHANGED grade_results
             ELSE /\ grade_results' = r.value
                  /\ pc' = "assemble"
                  /\ UNCHANGED exc
    /\ UNCHANGED <<index, symptom, details, term_results, context, llm_calls,
                   response, result>>
    /\ UNCHANGED ixvars
    /\ UNCHANGED other
    /\ UNCHANGED ingvars
    /\ UNCHANGED reply
    /\ UNCHANGED processor

\* all_results, the loop that renders the blocks, and the join; an exception
\* of the loop is outside every try and leaves match_symptom
Assemble ==
    /\ pc = "assemble"
    /\ LET all == AllResults(term_results, grade_results)
           err == AssembleError(all)
       IN  IF err # ""
           THEN /\ exc' = err
                /\ pc' = "raised"
                /\ UNCHANGED context
           ELSE /\ context' = BuildContext(all)
                /\ pc' = "generate"
                /\ UNCHANGED exc
    /\ UNCHANGED <<index, symptom, details, searches, term_results, grade_results,
                   llm_calls, response, result>>
    /\ UNCHANGED ixvars
    /\ UNCHANGED other
    /\ UNCHANGED ingvars
    /\ UNCHANGED reply
    /\ UNCHANGED processor

\* Step 3: response = chain.run(symptom, details, context); when it raises,
\* the except branch returns the failure dict with the error's message
Generate(texts) ==
    /\ pc = "generate"
    /\ \E outcome \in LlmOutcomes(texts) :
          /\ llm_calls' = Append(llm_calls, LlmCall(symptom, details, context, outcome))
          /\ IF outcome.raises
             THEN /\ result' = GenerationFailure(symptom, details, outcome.message)
                  /\ pc' = "done"
                  /\ UNCHANGED response
             ELSE /\ response' = outcome.text
                  /\ pc' = "parse"
                  /\ UNCHANGED result
    /\ UNCHANGED <<index, symptom, details, searches, term_results, grade_results,
                   context, exc>>
    /\ UNCHANGED ixvars
    /\ UNCHANGED other
    /\ UNCHANGED ingvars
    /\ UNCHANGED reply
    /\ UNCHANGED processor

\* response = response.strip(), then the brace search, json.loads and the return
Parse ==
    /\ pc = "parse"
    /\ response' = Strip(response)
    /\ result' = ParseResponse(response, symptom, details)
    /\ pc' = "done"
    /\ UNCHANGED <<index, symptom, details, searches, term_results, grade_results,
                   context, llm_calls, exc>>
    /\ UNCHANGED ixvars
    /\ UNCHANGED other
    /\ UNCHANGED ingvars
    /\ UNCHANGED reply
    /\ UNCHANGED processor

Next ==
    \/ SearchTerms
    \/ SearchGrades
    \/ Assemble
    \/ Generate(SampleTexts)
    \/ Parse

Spec == Init /\ [][Next]_vars

\* The same call against an empty index, with the language model returning
\* every text of at most MaxRaw tokens
InitParse ==
    /\ Init
    /\ index = << >>
    /\ symptom = <<"headache">>

NextParse ==
    \/ SearchTerms
    \/ SearchGrades
    \/ Assemble
    \/ Generate(Texts(MaxRaw))
    \/ Parse

SpecParse == InitParse /\ [][NextParse]_vars

\* ================================================================ properties
\* Vocabulary of the properties, stated on the text the language model sent
\* and on the logs of the calls, not on the locals of match_symptom.

Returned == pc = "done"
Raised == pc = "raised"

\* the completion call was issued and raised
GenerationRaised == Len(llm_calls) = 1 /\ llm_calls[1].outcome.raises
\* the completion call was issued and returned a text
GenerationReturned == Len(llm_calls) = 1 /\ ~llm_calls[1].outcome.raises
\* the text the completion call returned
RawText == llm_calls[1].outcome.text

Opens(t) == {i \in 1..Len(t) : t[i] = "{"}
Closes(t) == {i \in 1..Len(t) : t[i] = "}"}
\* t has a "{" and a later "}"
HasBracePair(t) == \E i \in Opens(t), j \in Closes(t) : i < j
\* from the first "{" of t to its last "}", inclusive
BraceSpan(t) ==
    LET a == CHOOSE i \in Opens(t) : \A k \in Opens(t) : i <= k
        b == CHOOSE j \in Closes(t) : \A k \in Closes(t) : k <= j
    IN  [i \in 1..(b - a + 1) |-> t[a + i - 1]]
\* the text has a brace pair and what it spans is a JSON object
ParsedOk ==
    /\ GenerationReturned
    /\ HasBracePair(RawText)
    /\ JsonLoads(BraceSpan(RawText)).ok
\* the text has no brace pair, or what it spans is no JSON object
ParseFailed == GenerationReturned /\ ~ParsedOk
\* the object the model's text carries
ModelObject == JsonLoads(BraceSpan(RawText)).value
\* t is u with whitespace, and nothing else, taken off both ends
IsStripOf(u, t) ==
    /\ \E i \in 0..Len(t) :
          /\ i + Len(u) <= Len(t)
          /\ \A k \in 1..Len(u) : u[k] = t[i + k]
          /\ \A k \in 1..Len(t) : (k <= i \/ k > i + Len(u)) => t[k] = " "
    /\ Len(u) > 0 => u[1] # " " /\ u[Len(u)] # " "

\* C1: match_symptom always ends by returning a MatchResult: no behaviour of
\* the index backend or of the language model makes an exception leave it.
C1_NeverRaises == ~Raised /\ exc = ""

\* C2 (as claimed): a returned result has the key error exactly when the
\* pipeline failed, and a result built from parsed model output has neither
\* error nor raw_response, whatever keys the model's object carried.
C2_ErrorIffFailed ==
    Returned =>
        /\ ("error" \in DOMAIN result) <=> (GenerationRaised \/ ParseFailed)
        /\ ParsedOk => DOMAIN result \cap {"error", "raw_response"} = {}

\* C2 (amended): every result of a failed pipeline has the key error; a result
\* built from parsed model output has error, and has raw_response, exactly
\* when the model's own object carried that key.
C2_ErrorIffFailedOrModelMade ==
    Returned =>
        /\ ("error" \in DOMAIN result) <=>
              \/ GenerationRaised
              \/ ParseFailed
              \/ ParsedOk /\ "error" \in DOMAIN ModelObject
        /\ ("raw_response" \in DOMAIN result) <=>
              \/ ParseFailed
              \/ ParsedOk /\ "raw_response" \in DOMAIN ModelObject

\* C2 witness: a parsed result that carries the model's own error key
C2_Witness ==
    /\ Returned
    /\ ParsedOk
    /\ "error" \in DOMAIN result
    /\ result["error"] = PyStr(<<"model-made error">>)

\* C3: when the text has a "{" and a later "}" and the span from the first
\* "{" to the last "}" is a JSON object, the result is that object with
\* original_symptom set to the symptom argument and details set to the
\* details argument exactly when details is non-empty; every other key keeps
\* the model's value, and the text around the span has no effect.
C3_ParsedObjectReturned ==
    (Returned /\ ParsedOk) =>
        LET set == {"original_symptom"} \cup
                   (IF details # << >> THEN {"details"} ELSE {})
        IN  /\ DOMAIN result = DOMAIN ModelObject \cup set
            /\ result["original_symptom"] = PyStr(symptom)
            /\ details # << >> => result["details"] = PyStr(details)
            /\ \A key \in DOMAIN ModelObject \ set : result[key] = ModelObject[key]

\* C3 witness: prose before the object, a model-made original_symptom inside
\* it, and details supplied
C3_Witness ==
    /\ Returned
    /\ GenerationReturned
    /\ RawText = <<"w", "{", "original_symptom", "}">>
    /\ details # << >>
    /\ result["original_symptom"] = PyStr(symptom)

\* C4 (as claimed): when the text has no brace pair or its span does not
\* parse, the result's error is the fixed message and raw_response is the
\* generator's text as returned.
C4_RawResponseIsOriginal ==
    (Returned /\ ParseFailed) =>
        /\ "error" \in DOMAIN result
        /\ result["error"] = PyStr(<<"Failed to parse LLM response as JSON">>)
        /\ "raw_response" \in DOMAIN result
        /\ result["raw_response"] = PyStr(RawText)

\* C4 (amended): when the text has no brace pair or its span does not parse,
\* the result's error is the fixed message and raw_response is the generator's
\* text without its leading and trailing whitespace.
C4_RawResponseIsStripped ==
    (Returned /\ ParseFailed) =>
        /\ "error" \in DOMAIN result
        /\ result["error"] = PyStr(<<"Failed to parse LLM response as JSON">>)
        /\ "raw_response" \in DOMAIN result
        /\ result["raw_response"][1] = "str"
        /\ IsStripOf(result["raw_response"][2], RawText)

\* C4 witness: an unparsable text with whitespace on both sides
C4_Witness ==
    /\ Returned
    /\ GenerationReturned
    /\ RawText = <<" ", "{", "w", " ">>
    /\ result["raw_response"] = PyStr(<<"{", "w">>)

\* C5 (as claimed): with empty details and a text without braces the result
\* has exactly the keys original_symptom, error and raw_response.
C5_NoDetailsKey ==
    (Returned /\ GenerationReturned /\ details = << >>
        /\ Opens(RawText) = {} /\ Closes(RawText) = {}) =>
        DOMAIN result = {"original_symptom", "error", "raw_response"}

\* C5 (amended): every failure result has the key details; it holds the
\* details argument when that is non-empty and None otherwise, so with empty
\* details and a text without braces the result has exactly the keys
\* original_symptom, details, error and raw_response, details being None.
C5_DetailsKeyHoldsNone ==
    /\ (Returned /\ (GenerationRaised \/ ParseFailed)) =>
          /\ "details" \in DOMAIN result
          /\ result["details"] = IF details = << >> THEN PyNone ELSE PyStr(details)
    /\ (Returned /\ GenerationReturned /\ details = << >>
          /\ Opens(RawText) = {} /\ Closes(RawText) = {}) =>
          DOMAIN result = {"original_symptom", "details", "error", "raw_response"}

\* C5 witness: empty details, a text of prose only, details: None returned
C5_Witness ==
    /\ Returned
    /\ GenerationReturned
    /\ details = << >>
    /\ RawText = <<"w", " ", "w">>
    /\ result["details"] = PyNone

\* Vocabulary for the retrieval and the context.

\* the hits the backend returned to search i ([] when it raised)
Returned_Hits(i) == searches[i].outcome.hits
\* search i found nothing: the backend raised, or it returned no hit
ZeroHits(i) == searches[i].outcome.raises \/ searches[i].outcome.hits = << >>
\* some search was answered with a malformed hit
SomeMalformedHit ==
    \E i \in 1..Len(searches) :
        /\ ~searches[i].outcome.raises
        /\ \E h \in 1..Len(searches[i].outcome.hits) :
              searches[i].outcome.hits[h].shape # "ok"
\* the context has been assembled
ContextBuilt == pc \in {"generate", "parse", "done"}
\* f"{score:.4f}" of the two scores of the model, as Python prints them
ScoreText(n) == IF n = 3 THEN "0.0938" ELSE "0.8750"
\* the seven tokens of block i of a context whose blocks are a blank line apart
BlockAt(ctx, i) == [k \in 1..7 |-> ctx[9 * (i - 1) + k]]
\* block is the rendering of hit
Shows(block, hit) ==
    LET m == hit.metadata IN
    /\ block[1] = <<"CTCAE Term: ", m.ctcae_term>>
    /\ block[3] = IF m.doc_type = "term"
                  THEN <<"MedDRA SOC: ", m.meddra_soc>>
                  ELSE <<"Grade: ", m.grade>>
    /\ block[5] = IF m.doc_type = "term"
                  THEN <<"Definition: ", m.definition>>
                  ELSE <<"Description: ", m.description>>
    /\ block[7] = <<"Similarity: ", ScoreText(hit.score)>>
    /\ block[2] = <<"\n">> /\ block[4] = <<"\n">> /\ block[6] = <<"\n">>
\* ctx is the blocks of hits, in order, one blank line between two blocks
IsContextOf(ctx, hits) ==
    LET n == Len(hits) IN
    /\ Len(ctx) = IF n = 0 THEN 0 ELSE 9 * n - 2
    /\ \A i \in 1..n : Shows(BlockAt(ctx, i), hits[i])
    /\ \A i \in 1..(n - 1) : ctx[9 * i - 1] = <<"\n">> /\ ctx[9 * i] = <<"\n">>

\* C6: when the completion call raises there is no second completion call,
\* and the call returns the failure variant whose error is the raised error's
\* message, whose original_symptom is the symptom argument, without raw_response.
C6_GenerationErrorNotRetried ==
    /\ Len(llm_calls) <= 1
    /\ (\E i \in 1..Len(llm_calls) : llm_calls[i].outcome.raises) =>
          /\ Returned
          /\ "error" \in DOMAIN result
          /\ result["error"] = PyStr(llm_calls[1].outcome.message)
          /\ result["original_symptom"] = PyStr(symptom)
          /\ "raw_response" \notin DOMAIN result

\* C6 witness: the completion call timed out and the call returned that message
C6_Witness ==
    /\ Returned
    /\ Len(llm_calls) = 1
    /\ llm_calls[1].outcome.raises
    /\ result["error"] = PyStr(<<"Request timed out.">>)

\* C7: when both searches find nothing (empty index, or the backend raised on
\* either or both), no exception leaves the call, the generator is invoked
\* exactly once with the empty context, and the returned MatchResult is the
\* one the generator's output determines.
C7_ZeroHitsStillGenerates ==
    (Len(searches) = 2 /\ ZeroHits(1) /\ ZeroHits(2)) =>
        /\ ~Raised
        /\ pc = "generate" => context = << >> /\ llm_calls = << >>
        /\ pc \in {"parse", "done"} =>
              /\ Len(llm_calls) = 1
              /\ llm_calls[1].context = << >>
        /\ Returned =>
              /\ result # NoResult
              /\ result["original_symptom"] = PyStr(symptom)
              /\ GenerationRaised => result["error"] = PyStr(llm_calls[1].outcome.message)
              /\ ParseFailed => result["error"] = PyStr(<<"Failed to parse LLM response as JSON">>)
              /\ ParsedOk => \A key \in DOMAIN ModelObject \ {"original_symptom", "details"} :
                                result[key] = ModelObject[key]

\* C7 witness: a populated index, the term search raised, the grade search
\* returned nothing, and the call returned after one completion call
C7_Witness ==
    /\ Returned
    /\ index # << >>
    /\ searches[1].outcome.raises
    /\ ~searches[2].outcome.raises
    /\ searches[2].outcome.hits = << >>
    /\ Len(llm_calls) = 1
    /\ llm_calls[1].context = << >>
    /\ ParsedOk

\* C8: every call issues exactly two searches: first the symptom with k=3 and
\* the filter doc_type = term, then symptom + " " + details with k=5 and the
\* filter doc_type = grade_description; with empty details the second query is
\* the symptom followed by one space.
C8_TwoSearches ==
    /\ Len(searches) <= 2
    /\ pc = "terms" <=> Len(searches) = 0
    /\ pc = "grades" <=> Len(searches) = 1
    /\ Len(searches) >= 1 =>
          /\ searches[1].query = symptom
          /\ searches[1].k = 3
          /\ searches[1].filter = [doc_type |-> "term"]
    /\ Len(searches) = 2 =>
          /\ searches[2].query = symptom \o <<" ">> \o details
          /\ searches[2].k = 5
          /\ searches[2].filter = [doc_type |-> "grade_description"]
          /\ details = << >> =>
                /\ Len(searches[2].query) = Len(symptom) + 1
                /\ searches[2].query[Len(symptom) + 1] = " "

\* C8 witness: a finished call with empty details whose second query is the
\* symptom and a trailing space
C8_Witness ==
    /\ Returned
    /\ details = << >>
    /\ Len(searches) = 2
    /\ searches[2].query = <<"headache", " ">>

\* C9: a backend failure never leaves search_term_store: the search that
\* raised yields the empty list, the other search is still issued, and the
\* other search's hits are the ones the context is built from.
C9_BackendFailureContained ==
    /\ Raised => Len(searches) = 2 /\ SomeMalformedHit
    /\ Len(searches) = 1 => pc = "grades"
    /\ (Len(searches) >= 1 /\ searches[1].outcome.raises) => term_results = << >>
    /\ (Len(searches) = 2 /\ searches[2].outcome.raises) => grade_results = << >>
    /\ (ContextBuilt /\ searches[1].outcome.raises /\ ~searches[2].outcome.raises) =>
          IsContextOf(context, Returned_Hits(2))
    /\ (ContextBuilt /\ ~searches[1].outcome.raises /\ searches[2].outcome.raises) =>
          IsContextOf(context, Returned_Hits(1))

\* C9 witness: the term search raised, the grade search returned two hits,
\* and the context holds their two blocks
C9_Witness ==
    /\ ContextBuilt
    /\ searches[1].outcome.raises
    /\ ~searches[2].outcome.raises
    /\ Len(searches[2].outcome.hits) = 2
    /\ Len(context) = 16

\* C10: the context passed to the generator has one block per hit, the blocks
\* of the term search's hits before those of the grade search's hits, each
\* list in the order the backend returned it, two consecutive blocks one blank
\* line apart; an empty list adds no block and two empty lists give the empty
\* string.
C10_ContextOrder ==
    /\ ContextBuilt =>
          IsContextOf(context, Returned_Hits(1) \o Returned_Hits(2))
    /\ \A i \in 1..Len(llm_calls) : llm_calls[i].context = context

\* C10 witness: two term hits returned with ascending scores and a grade hit
\* scoring higher than the first of them, all three rendered in that order
C10_Witness ==
    /\ Returned
    /\ Len(searches[1].outcome.hits) = 2
    /\ searches[1].outcome.hits[1].score = 3
    /\ searches[1].outcome.hits[2].score = 28
    /\ Len(searches[2].outcome.hits) = 1
    /\ searches[2].outcome.hits[1].score = 28
    /\ Len(llm_calls) = 1
    /\ Len(llm_calls[1].context) = 25
    /\ llm_calls[1].context[7] = <<"Similarity: ", "0.0938">>
    /\ llm_calls[1].context[21] = <<"Grade: ", searches[2].outcome.hits[1].metadata.grade>>

\* the stage that follows a stage when nothing goes wrong
NextStage(stage) ==
    CASE stage = "terms" -> "grades"
      [] stage = "grades" -> "assemble"
      [] stage = "assemble" -> "generate"
      [] stage = "generate" -> "parse"
      [] OTHER -> "done"

\* C11: within one call the stages occur in the order term search, grade
\* search, context assembly, generation, parse, done, each entered at most
\* once: every step of the call either enters the next stage, or ends the call
\* at done with a failure-variant result; no step ends it with an exception.
C11_StagesInOrder ==
    [][ /\ pc' # "raised"
        /\ \/ pc' = NextStage(pc)
           \/ pc' = "done" /\ "error" \in DOMAIN result' ]_vars

\* ============================================================ the indexer
\* ------------------------------------------------ the canonical term list
\* a grade entry of a term dictionary
Grade(grade, description) == [grade |-> grade, description |-> description]

\* a term dictionary of the processed CTCAE data
Term(name, soc, definition, code, grades) ==
    [ctcae_term |-> name, meddra_soc |-> soc, definition |-> definition,
     meddra_code |-> code, grades |-> grades]

\* the term dictionaries the small term lists are made of: one with every
\* description present, one with an empty description between two present
\* ones, one with an empty term name, one whose grade entry has no grade number
SampleTerms ==
    { Term("Nausea", "Gastrointestinal disorders", "queasy sensation", "10028813",
           <<Grade("1", "loss of appetite"), Grade("2", "oral intake decreased")>>),
      Term("Fever", "General disorders", "raised temperature", "10016558",
           <<Grade("1", "38.0 - 39.0 degrees C"), Grade("2", ""),
             Grade("3", "above 40.0 degrees C")>>),
      Term("", "Nervous system disorders", "pain in the head", "10019211",
           <<Grade("1", "mild pain")>>),
      Term("Anemia", "Blood disorders", "low hemoglobin", "10002272",
           <<Grade("", "transfusion indicated")>>) }

\* the longest of the small term lists
MaxTerms == 2

\* the lists of at most n sample terms
RECURSIVE TermListsUpTo(_)
TermListsUpTo(n) ==
    IF n = 0 THEN { << >> }
    ELSE LET shorter == TermListsUpTo(n - 1)
         IN  shorter \cup { Append(l, t) : l \in {x \in shorter : Len(x) = n - 1},
                                           t \in SampleTerms }

\* ------------------------------------------- add_terms_to_vectorstore
\* bool(s) of a str value of a term dictionary
NonEmpty(s) == s # ""

\* the grade documents of a term that keep every grade entry, an empty
\* description included
RECURSIVE GradeDocumentsAll(_, _)
GradeDocumentsAll(term, grades) ==
    IF grades = << >> THEN << >>
    ELSE <<GradeDoc(term.ctcae_term, term.meddra_soc, Head(grades).grade,
                    Head(grades).description)>>
         \o GradeDocumentsAll(term, Tail(grades))

\* the inner loop: one grade document per grade entry with a grade number
\* and a description, in the order of the entries
RECURSIVE GradeDocuments(_, _)
GradeDocuments(term, grades) ==
    IF grades = << >> THEN << >>
    ELSE (IF NonEmpty(Head(grades).grade) /\ NonEmpty(Head(grades).description)
          THEN <<GradeDoc(term.ctcae_term, term.meddra_soc, Head(grades).grade,
                          Head(grades).description)>>
          ELSE << >>)
         \o GradeDocuments(term, Tail(grades))

\* the body of the outer loop for one term: nothing for a term without a
\* name, else the term document followed by its grade documents
TermDocuments(term) ==
    IF ~NonEmpty(term.ctcae_term) THEN << >>
    ELSE <<TermDoc(term.ctcae_term, term.meddra_soc, term.definition,
                   term.meddra_code)>>
         \o GradeDocuments(term, term.grades)

\* documents, as the outer loop leaves it
RECURSIVE CreateDocuments(_)
CreateDocuments(term_list) ==
    IF term_list = << >> THEN << >>
    ELSE TermDocuments(Head(term_list)) \o CreateDocuments(Tail(term_list))

\* batch_size
BatchSize == 100

\* documents[i:], a batch that runs to the end of the list
BatchToEnd(docs, i) == SubSeq(docs, i + 1, Len(docs))

\* documents[i:i + batch_size]
Batch(docs, i) == SubSeq(docs, i + 1, Min(i + BatchSize, Len(docs)))

\* total_added after a batch was written, counted as the number of documents
\* the collection then holds
StoredAfterWrite(total, batch) == Len(index) + Len(batch)

\* total_added += len(batch)
AddedAfterWrite(total, batch) == total + Len(batch)

\* a record of one add_documents call: the run it belongs to, the loop
\* variable i, the size of the batch and whether the write went through
WriteCall(r, i, size, ok) == [run |-> r, start |-> i, size |-> size, ok |-> ok]

\* ----------------------------------------------------- long term lists
\* the most batches a term list of the model fills
MaxBatches == 3

\* the i-th term of a long list: a name of its own and four grade entries
LongTerm(i) ==
    Term("Term " \o ToString(i), "General disorders", "definition " \o ToString(i),
         ToString(10000000 + i),
         <<Grade("1", "mild"), Grade("2", "moderate"), Grade("3", "severe"),
           Grade("4", "life-threatening")>>)

\* the first n long terms
LongList(n) == [i \in 1..n |-> LongTerm(i)]

\* the number of long terms whose documents fill one batch exactly
TermsPerBatch == BatchSize \div Len(TermDocuments(LongTerm(1)))

\* lists whose documents fill a whole number of batches exactly, and lists
\* with one term more, which need one more batch
LongLists ==
    { LongList(TermsPerBatch * b) : b \in 1..(MaxBatches - 1) }
    \cup { LongList(TermsPerBatch * b + 1) : b \in 1..(MaxBatches - 1) }

\* ---------------------------------------------------- setup_vector_store
\* metadata of the document setup_vector_store creates the collection with:
\* Document(page_content="Initialization document") has no metadata
InitDocument == [key \in {} |-> ""]

\* the outcomes of a call to the store that either goes through or raises
CallOutcomes == {"ok", "raises"}

\* seq without its last element
Front(seq) == SubSeq(seq, 1, Len(seq) - 1)

\* what delete_collection leaves of the collection when it does nothing
delete_collection_noop(idx) == idx

\* what delete_collection leaves of the collection: nothing
delete_collection(idx) == << >>

\* where setup_vector_store goes after the reset if an exception of
\* delete_collection were let out
AfterResetLetOut(outcome) == IF outcome = "ok" THEN "create" ELSE "raised"

\* where setup_vector_store goes after the reset: the except clause logs
\* the exception, and the creation of the store follows either way
AfterReset(outcome) == "create"

\* a finished run: the count it returned, what its reset did and the
\* collection as it left it
RunReport(r, count, del, idx) ==
    [run |-> r, count |-> count, deletion |-> del, stored |-> idx]

\* ----------------------------------------------------- the indexing run
\* no match_symptom call is under way
MatcherIdle ==
    /\ symptom = << >>
    /\ details = << >>
    /\ pc = "idle"
    /\ searches = << >>
    /\ term_results = << >>
    /\ grade_results = << >>
    /\ context = << >>
    /\ llm_calls = << >>
    /\ response = << >>
    /\ result = NoResult
    /\ exc = ""

\* the locals of a run that is about to call setup_vector_store
RunStart ==
    /\ ix_pc = "reset"
    /\ deletion = ""
    /\ documents = << >>
    /\ batch_i = 0
    /\ total_added = 0
    /\ start_len = 0

\* create_vector_store has read the term list of the processed file: the
\* collection is empty or populated by an earlier indexing; the term list is
\* any of the small lists, the empty one included, or a long one
InitIndex ==
    /\ index \in {<< >>, SampleIndex}
    /\ MatcherIdle
    /\ other = IdleCall
    /\ IngestIdle
    /\ reply = NoReply
    /\ processor = NoProcessor
    /\ terms \in TermListsUpTo(MaxTerms) \cup LongLists
    /\ run = "first"
    /\ ix_pc = "loaded"
    /\ deletion = ""
    /\ documents = << >>
    /\ batch_i = 0
    /\ total_added = 0
    /\ start_len = 0
    /\ writes = << >>
    /\ counts = << >>

\* create_vector_store: `if not terms` prints an error and returns False
\* before any call to the store; else setup_vector_store is called next
IxCheckTerms ==
    /\ ix_pc = "loaded"
    /\ ix_pc' = IF terms = << >> THEN "refused" ELSE "reset"
    /\ UNCHANGED <<index, terms, run, deletion, documents, batch_i, total_added,
                   start_len, writes, counts>>
    /\ UNCHANGED mvars
    /\ UNCHANGED other
    /\ UNCHANGED ingvars
    /\ UNCHANGED reply
    /\ UNCHANGED processor

\* setup_vector_store, reset_collection=True: IRISVector(...).delete_collection()
\* inside a try; an exception is logged and swallowed
IxReset ==
    /\ ix_pc = "reset"
    /\ \E outcome \in CallOutcomes :
          /\ IF outcome = "ok"
             THEN index' = delete_collection(index) /\ deletion' = "ok"
             ELSE index' = index /\ deletion' = "failed"
          /\ ix_pc' = AfterReset(outcome)
    /\ UNCHANGED <<terms, run, documents, batch_i, total_added, start_len, writes,
                   counts>>
    /\ UNCHANGED mvars
    /\ UNCHANGED other
    /\ UNCHANGED ingvars
    /\ UNCHANGED reply
    /\ UNCHANGED processor

\* setup_vector_store: IRISVector.from_documents([Initialization document]);
\* an exception leads to the except branch
IxCreate ==
    /\ ix_pc = "create"
    /\ \E outcome \in CallOutcomes :
          IF outcome = "ok"
          THEN index' = Append(index, InitDocument) /\ ix_pc' = "cleanup"
          ELSE index' = index /\ ix_pc' = "connect"
    /\ UNCHANGED <<terms, run, deletion, documents, batch_i, total_added, start_len,
                   writes, counts>>
    /\ UNCHANGED mvars
    /\ UNCHANGED other
    /\ UNCHANGED ingvars
    /\ UNCHANGED reply
    /\ UNCHANGED processor

\* setup_vector_store: vectorstore.delete(["Initialization document"]) inside
\* try / bare except; the document is removed or it stays, and the store is
\* returned either way
IxCleanup ==
    /\ ix_pc = "cleanup"
    /\ \E removed \in BOOLEAN :
          index' = IF removed /\ index # << >> /\ index[Len(index)] = InitDocument
                   THEN Front(index) ELSE index
    /\ ix_pc' = "build"
    /\ UNCHANGED <<terms, run, deletion, documents, batch_i, total_added, start_len,
                   writes, counts>>
    /\ UNCHANGED mvars
    /\ UNCHANGED other
    /\ UNCHANGED ingvars
    /\ UNCHANGED reply
    /\ UNCHANGED processor

\* setup_vector_store, except branch: IRISVector(...) outside any try; it
\* returns the store or its exception leaves setup_vector_store, and
\* add_terms_to_vectorstore is not called
IxConnect ==
    /\ ix_pc = "connect"
    /\ \E outcome \in CallOutcomes :
          ix_pc' = IF outcome = "ok" THEN "build" ELSE "raised"
    /\ UNCHANGED <<index, terms, run, deletion, documents, batch_i, total_added,
                   start_len, writes, counts>>
    /\ UNCHANGED mvars
    /\ UNCHANGED other
    /\ UNCHANGED ingvars
    /\ UNCHANGED reply
    /\ UNCHANGED processor

\* add_terms_to_vectorstore, the document loops and the two assignments that
\* follow them
IxBuild ==
    /\ ix_pc = "build"
    /\ documents' = CreateDocuments(terms)
    /\ batch_i' = 0
    /\ total_added' = 0
    /\ start_len' = Len(index)
    /\ ix_pc' = "batches"
    /\ UNCHANGED <<index, terms, run, deletion, writes, counts>>
    /\ UNCHANGED mvars
    /\ UNCHANGED other
    /\ UNCHANGED ingvars
    /\ UNCHANGED reply
    /\ UNCHANGED processor

\* one iteration of the batch loop: vectorstore.add_documents(batch) inside
\* a try; a write that goes through stores the whole batch and adds its size
\* to total_added, a write that raises stores nothing and is logged
IxBatch ==
    /\ ix_pc = "batches"
    /\ batch_i < Len(documents)
    /\ LET batch == Batch(documents, batch_i) IN
       \E outcome \in CallOutcomes :
          /\ IF outcome = "ok"
             THEN /\ index' = index \o batch
                  /\ total_added' = AddedAfterWrite(total_added, batch)
             ELSE /\ index' = index
                  /\ total_added' = total_added
          /\ writes' = Append(writes, WriteCall(run, batch_i, Len(batch), outcome = "ok"))
    /\ batch_i' = batch_i + BatchSize
    /\ UNCHANGED <<terms, run, ix_pc, deletion, documents, start_len, counts>>
    /\ UNCHANGED mvars
    /\ UNCHANGED other
    /\ UNCHANGED ingvars
    /\ UNCHANGED reply
    /\ UNCHANGED processor

\* return total_added, once range(0, len(documents), batch_size) is used up
IxReturn ==
    /\ ix_pc = "batches"
    /\ batch_i >= Len(documents)
    /\ counts' = Append(counts, RunReport(run, total_added, deletion, index))
    /\ ix_pc' = "returned"
    /\ UNCHANGED <<index, terms, run, deletion, documents, batch_i, total_added,
                   start_len, writes>>
    /\ UNCHANGED mvars
    /\ UNCHANGED other
    /\ UNCHANGED ingvars
    /\ UNCHANGED reply
    /\ UNCHANGED processor

\* the indexing operation is run a second time on the same term list
IxAgain ==
    /\ ix_pc \in {"returned", "raised", "refused"}
    /\ run = "first"
    /\ run' = "second"
    /\ ix_pc' = "loaded"
    /\ deletion' = ""
    /\ documents' = << >>
    /\ batch_i' = 0
    /\ total_added' = 0
    /\ start_len' = 0
    /\ UNCHANGED <<index, terms, writes, counts>>
    /\ UNCHANGED mvars
    /\ UNCHANGED other
    /\ UNCHANGED ingvars
    /\ UNCHANGED reply
    /\ UNCHANGED processor

\* the steps of the indexing runs
NextIndex ==
    \/ IxCheckTerms
    \/ IxReset
    \/ IxCreate
    \/ IxCleanup
    \/ IxConnect
    \/ IxBuild
    \/ IxBatch
    \/ IxReturn
    \/ IxAgain

SpecIndex == InitIndex /\ [][NextIndex]_vars

\* ------------------------------------------------ claims on the indexer
\* add_terms_to_vectorstore has created its documents
Built == ix_pc \in {"batches", "returned"}

\* the grade numbers of a GradeRecord
GradeNumbers == {"1", "2", "3", "4", "5"}

\* t is a TermRecord: it has a name and each of its grades a grade number
IsTermRecord(t) ==
    /\ t.ctcae_term # ""
    /\ \A g \in DOMAIN t.grades : t.grades[g].grade \in GradeNumbers

\* the positions of the documents created under the name of t
DocumentsFor(t) == {i \in DOMAIN documents : documents[i].ctcae_term = t.ctcae_term}

\* the grades of t whose description is non-empty
DescribedGrades(t) == {g \in DOMAIN t.grades : t.grades[g].description # ""}

\* C12: for every TermRecord of the list (the only one of its name) with N
\* grades whose description is non-empty, add_terms_to_vectorstore creates
\* exactly 1 + N documents: exactly one with doc_type "term", and for each such
\* grade exactly one with doc_type "grade_description" that carries the grade,
\* its description and the parent's meddra_soc; no document has an empty
\* description.
C12_DocumentsPerTerm ==
    Built =>
      \A p \in DOMAIN terms :
        LET t == terms[p] IN
        ( /\ IsTermRecord(t)
          /\ \A q \in DOMAIN terms \ {p} : terms[q].ctcae_term # t.ctcae_term )
        => /\ Cardinality(DocumentsFor(t)) = 1 + Cardinality(DescribedGrades(t))
           /\ Cardinality({i \in DocumentsFor(t) : documents[i].doc_type = "term"}) = 1
           /\ \A g \in DescribedGrades(t) :
                Cardinality({i \in DocumentsFor(t) :
                               /\ documents[i].doc_type = "grade_description"
                               /\ documents[i].grade = t.grades[g].grade
                               /\ documents[i].description = t.grades[g].description
                               /\ documents[i].meddra_soc = t.meddra_soc}) = 1
           /\ \A i \in DocumentsFor(t) :
                documents[i].doc_type = "grade_description"
                => documents[i].description # ""

\* the documents of a list are created whose TermRecord has two grades with a
\* description and one without: three documents for it
C12_Witness ==
    /\ Built
    /\ \E p \in DOMAIN terms :
          /\ IsTermRecord(terms[p])
          /\ Cardinality(DescribedGrades(terms[p])) = 2
          /\ Len(terms[p].grades) = 3
          /\ Cardinality(DocumentsFor(terms[p])) = 3

\* the add_documents calls of the run under way
RunWrites == SelectSeq(writes, LAMBDA w : w.run = run)

\* the sum of the sizes of the writes of ws that went through
RECURSIVE SumSucceeded(_)
SumSucceeded(ws) ==
    IF ws = << >> THEN 0
    ELSE (IF Head(ws).ok THEN Head(ws).size ELSE 0) + SumSucceeded(Tail(ws))

\* the documents of the batches of ws that went through, in write order
RECURSIVE DocumentsSucceeded(_)
DocumentsSucceeded(ws) ==
    IF ws = << >> THEN << >>
    ELSE (IF Head(ws).ok
          THEN SubSeq(documents, Head(ws).start + 1, Head(ws).start + Head(ws).size)
          ELSE << >>)
         \o DocumentsSucceeded(Tail(ws))

\* the count the run under way returned
ReturnedCount == counts[Len(counts)].count

\* C13: the batches written are consecutive slices of documents of between 1
\* and 100 documents, the first starting at the first document and each
\* starting where the one before ended, whether that one was written or
\* raised; when add_terms_to_vectorstore returns they cover every document,
\* the count returned is the sum of the sizes of the batches whose write went
\* through, and the documents this call added to the index are exactly the
\* documents of those batches.
C13_BatchesAndCount ==
    Built =>
      LET ws == RunWrites IN
      /\ \A j \in DOMAIN ws :
            /\ ws[j].size >= 1
            /\ ws[j].size <= 100
            /\ ws[j].start = (IF j = 1 THEN 0 ELSE ws[j - 1].start + ws[j - 1].size)
            /\ ws[j].start + ws[j].size <= Len(documents)
      /\ ix_pc = "returned" =>
            /\ IF documents = << >> THEN ws = << >>
               ELSE ws # << >> /\ ws[Len(ws)].start + ws[Len(ws)].size = Len(documents)
            /\ ReturnedCount = SumSucceeded(ws)
            /\ Len(index) = start_len + ReturnedCount
            /\ SubSeq(index, start_len + 1, Len(index)) = DocumentsSucceeded(ws)

\* a run returned after three batches of which the second raised: the count
\* is the size of the first and the third
C13_Witness ==
    /\ ix_pc = "returned"
    /\ Len(RunWrites) = 3
    /\ RunWrites[1].ok
    /\ ~RunWrites[2].ok
    /\ RunWrites[3].ok
    /\ ReturnedCount = RunWrites[1].size + RunWrites[3].size
    /\ ReturnedCount < Len(documents)

\* the add_documents calls of the first and of the second run
WritesOf(r) == SelectSeq(writes, LAMBDA w : w.run = r)

\* both runs returned a count
BothReturned == Len(counts) = 2 /\ ix_pc = "returned"

\* C14 as stated: two runs in succession on the same term list return the
\* same document count.
C14_SameCount ==
    \A a, b \in DOMAIN counts : counts[a].count = counts[b].count

\* C14: every run that returns, returns the sum of the sizes of its own
\* batches whose write went through, whatever the collection held before and
\* whatever its deletion did; two runs in succession on the same term list
\* that both return attempted the same batches, so that their counts are equal
\* exactly when the batches that went through have the same total size in
\* both, and both are the number of documents created from the list when no
\* write raised in either.
C14_CountIsSucceededBatches ==
    /\ \A a \in DOMAIN counts :
          counts[a].count = SumSucceeded(WritesOf(counts[a].run))
    /\ BothReturned =>
         LET first == WritesOf("first")
             second == WritesOf("second")
         IN  /\ Len(first) = Len(second)
             /\ \A j \in DOMAIN first :
                   first[j].start = second[j].start /\ first[j].size = second[j].size
             /\ (counts[1].count = counts[2].count)
                   <=> (SumSucceeded(first) = SumSucceeded(second))
             /\ (\A j \in DOMAIN writes : writes[j].ok)
                => counts[1].count = Len(documents) /\ counts[2].count = Len(documents)

\* both runs returned after two batches: the first batch raised in the first
\* run only and the second batch in the second run only, and each count is
\* the size of the one batch that went through in its run
C14_Witness ==
    /\ BothReturned
    /\ Len(WritesOf("first")) = 2
    /\ ~WritesOf("first")[1].ok
    /\ WritesOf("first")[2].ok
    /\ WritesOf("second")[1].ok
    /\ ~WritesOf("second")[2].ok
    /\ counts[1].count = WritesOf("first")[2].size
    /\ counts[2].count = WritesOf("second")[1].size
    /\ counts[1].count < Len(documents)

\* the documents of idx that carry a doc_type
Tagged(idx) == SelectSeq(idx, LAMBDA d : "doc_type" \in DOMAIN d)

\* run r deleted the collection and every one of its batch writes went through
CleanRun(r) ==
    /\ \E a \in DOMAIN counts : counts[a].run = r /\ counts[a].deletion = "ok"
    /\ \A j \in DOMAIN writes : writes[j].run = r => writes[j].ok

\* the collection as run r left it
StoredBy(r) == counts[CHOOSE a \in DOMAIN counts : counts[a].run = r].stored

\* C15: when a run has returned in which the deletion and every batch write
\* succeeded, the doc_type-tagged documents of the index are exactly the
\* documents created from the run's term list, each once and in creation
\* order, whatever the collection held before; and a second such run leaves
\* the same tagged documents as the first.
C15_OnlyThisRunsDocuments ==
    /\ (ix_pc = "returned" /\ CleanRun(run)) => Tagged(index) = documents
    /\ (CleanRun("first") /\ CleanRun("second"))
       => Tagged(StoredBy("second")) = Tagged(StoredBy("first"))

\* a populated collection was indexed twice with more than one batch of
\* documents, everything succeeding in both runs
C15_Witness ==
    /\ ix_pc = "returned"
    /\ run = "second"
    /\ CleanRun("first")
    /\ CleanRun("second")
    /\ Len(documents) > 100
    /\ Len(Tagged(index)) = Len(documents)
    /\ Len(WritesOf("first")) = 3

\* C16 as stated: after a failed deletion setup_vector_store still returns a
\* store, so it never ends with an exception.
C16_StoreReturned == deletion = "failed" => ix_pc # "raised"

\* C16: a failed deletion does not end setup_vector_store: the creation of
\* the store is tried next, and from then on the only step that ends the run
\* with an exception is a failed connection after a failed creation; when the
\* store is returned the documents are created and every batch of them is
\* attempted before the run returns.
C16_DeletionFailureNotFatal ==
    [][ deletion' = "failed" =>
          /\ ix_pc = "reset" => ix_pc' = "create"
          /\ ix_pc' = "raised" => ix_pc = "connect"
          /\ ix_pc \in {"cleanup", "connect"} => ix_pc' \in {"build", "raised"}
          /\ ix_pc = "build" => ix_pc' = "batches"
          /\ ix_pc' = "returned" =>
                /\ Len(RunWrites) * 100 >= Len(documents)
                /\ \A j \in DOMAIN RunWrites : RunWrites[j].start = (j - 1) * 100 ]_vars

\* the deletion failed on a collection that did not exist, the store was
\* returned and every document was written
C16_Witness ==
    /\ deletion = "failed"
    /\ run = "first"
    /\ ix_pc = "returned"
    /\ RunWrites # << >>
    /\ total_added = Len(documents)
    /\ Tagged(index) = documents

\* ==================================================== calls in flight together
\* the i-th of the stored documents a filter selects, in stored order
NthMatching(idx, filter, i) ==
    CHOOSE p \in Matching(idx, filter) :
        Cardinality({q \in Matching(idx, filter) : q < p}) = i - 1

\* the answers of similarity_search_with_score of a backend that returns the
\* k nearest documents, or all the filter selects when they are fewer than k
\* (here the first ones in stored order, at one of the scores), or raises
NearestOutcomes(idx, k, filter) ==
    {[raises |-> TRUE, hits |-> << >>]}
    \cup {[raises |-> FALSE,
           hits |-> [i \in 1..Min(k, Cardinality(Matching(idx, filter))) |->
                        Hit(idx[NthMatching(idx, filter, i)], score)]] :
            score \in ScoreNums}

\* the collection a search runs over if searches were served from the
\* collection as the last complete indexing left it
SearchSurfaceBefore(idx) == CreateDocuments(terms)

\* the collection a search runs over: the stored documents at the moment
\* of the call
SearchSurface(idx) == idx

\* the collection after a search that also stored a document
IndexAfterSearchUpsert(idx) == Append(idx, InitDocument)

\* the collection after search_term_store: similarity_search_with_score is
\* the only call made to the store
IndexAfterSearch(idx) == idx

\* the context passed to chain.run if context were kept on the SymptomMatcher,
\* where the call that assembled last overwrites it
ContextOfMatcher(call) == context

\* the context passed to chain.run: the local of the call
ContextOfCall(call) == call.context

\* what the collection held and how far an indexing run was when a search
\* was made
Observation ==
    [deletion |-> deletion, nwrites |-> Len(writes),
     ntagged |-> Len(Tagged(SearchSurface(index)))]

\* the locals of a call at its first statement
StartCall(sym, det) ==
    [IdleCall EXCEPT !.symptom = sym, !.details = det, !.pc = "terms"]

\* the second call, step 1
OtherSearchTerms ==
    /\ other.pc = "terms"
    /\ \E outcome \in NearestOutcomes(SearchSurface(index), TermK, TermFilter) :
          LET r == search_term_store(outcome) IN
          other' = [other EXCEPT
                      !.searches = Append(@, SearchCall(other.symptom, TermK,
                                                        TermFilter, outcome)),
                      !.observed = Append(@, Observation),
                      !.term_results = IF r.raises THEN @ ELSE r.value,
                      !.exc = IF r.raises THEN "BackendError" ELSE @,
                      !.pc = IF r.raises THEN "raised" ELSE "grades"]
    /\ index' = IndexAfterSearch(index)
    /\ UNCHANGED mvars
    /\ UNCHANGED ixvars
    /\ UNCHANGED ingvars
    /\ UNCHANGED reply
    /\ UNCHANGED processor

\* the second call, step 2
OtherSearchGrades ==
    /\ other.pc = "grades"
    /\ \E outcome \in NearestOutcomes(SearchSurface(index), GradeK, GradeFilter) :
          LET r == search_term_store(outcome) IN
          other' = [other EXCEPT
                      !.searches = Append(@, SearchCall(
                                      GradeQuery(other.symptom, other.details),
                                      GradeK, GradeFilter, outcome)),
                      !.observed = Append(@, Observation),
                      !.grade_results = IF r.raises THEN @ ELSE r.value,
                      !.exc = IF r.raises THEN "BackendError" ELSE @,
                      !.pc = IF r.raises THEN "raised" ELSE "assemble"]
    /\ index' = IndexAfterSearch(index)
    /\ UNCHANGED mvars
    /\ UNCHANGED ixvars
    /\ UNCHANGED ingvars
    /\ UNCHANGED reply
    /\ UNCHANGED processor

\* the second call, context assembly
OtherAssemble ==
    /\ other.pc = "assemble"
    /\ LET all == AllResults(other.term_results, other.grade_results)
           err == AssembleError(all)
       IN  other' = IF err # ""
                    THEN [other EXCEPT !.exc = err, !.pc = "raised"]
                    ELSE [other EXCEPT !.context = BuildContext(all),
                                       !.pc = "generate"]
    /\ UNCHANGED index
    /\ UNCHANGED mvars
    /\ UNCHANGED ixvars
    /\ UNCHANGED ingvars
    /\ UNCHANGED reply
    /\ UNCHANGED processor

\* the second call, step 3
OtherGenerate(texts) ==
    /\ other.pc = "generate"
    /\ \E outcome \in LlmOutcomes(texts) :
          LET call == LlmCall(other.symptom, other.details, ContextOfCall(other),
                              outcome)
          IN  other' = IF outcome.raises
                       THEN [other EXCEPT
                               !.llm_calls = Append(@, call),
                               !.result = GenerationFailure(other.symptom,
                                              other.details, outcome.message),
                               !.pc = "done"]
                       ELSE [other EXCEPT
                               !.llm_calls = Append(@, call),
                               !.response = outcome.text,
                               !.pc = "parse"]
    /\ UNCHANGED index
    /\ UNCHANGED mvars
    /\ UNCHANGED ixvars
    /\ UNCHANGED ingvars
    /\ UNCHANGED reply
    /\ UNCHANGED processor

\* the second call, the parse and the return
OtherParse ==
    /\ other.pc = "parse"
    /\ other' = [other EXCEPT
                   !.response = Strip(@),
                   !.result = ParseResponse(other.response, other.symptom,
                                            other.details),
                   !.pc = "done"]
    /\ UNCHANGED index
    /\ UNCHANGED mvars
    /\ UNCHANGED ixvars
    /\ UNCHANGED ingvars
    /\ UNCHANGED reply
    /\ UNCHANGED processor

\* two calls on one SymptomMatcher over a populated collection: the first
\* with one symptom and no details, the second with any arguments
InitConc ==
    /\ index = SampleIndex
    /\ symptom = <<"headache">>
    /\ details = << >>
    /\ pc = "terms"
    /\ searches = << >>
    /\ term_results = << >>
    /\ grade_results = << >>
    /\ context = << >>
    /\ llm_calls = << >>
    /\ response = << >>
    /\ result = NoResult
    /\ exc = ""
    /\ IndexerIdle
    /\ IngestIdle
    /\ reply = NoReply
    /\ processor = NoProcessor
    /\ other \in {StartCall(sym, det) : sym \in Symptoms, det \in DetailsValues}

\* the backend answered the last search of the first call as a backend that
\* returns the nearest documents does
LastAnswerNearest(k, filter) ==
    searches'[Len(searches')].outcome \in NearestOutcomes(index, k, filter)

\* the steps of the first call
ConcSearchTerms == SearchTerms /\ LastAnswerNearest(TermK, TermFilter)

ConcSearchGrades == SearchGrades /\ LastAnswerNearest(GradeK, GradeFilter)

\* the steps of the two calls, in any order
NextConc ==
    \/ ConcSearchTerms
    \/ ConcSearchGrades
    \/ Assemble
    \/ Generate(SampleTexts)
    \/ Parse
    \/ OtherSearchTerms
    \/ OtherSearchGrades
    \/ OtherAssemble
    \/ OtherGenerate(SampleTexts)
    \/ OtherParse

SpecConc == InitConc /\ [][NextConc]_vars

\* ------------------------------------------- claims on calls in flight together
\* the locals of the first call, as a record like the second call's
ThisCall ==
    [symptom |-> symptom, details |-> details, pc |-> pc, searches |-> searches,
     term_results |-> term_results, grade_results |-> grade_results,
     context |-> context, llm_calls |-> llm_calls, response |-> response,
     result |-> result, exc |-> exc]

\* the hits the backend returned to the i-th search of call c, none when it raised
HitsOf(c, i) ==
    IF c.searches[i].outcome.raises THEN << >> ELSE c.searches[i].outcome.hits

\* what call c returns, from its own arguments and the answer to its own
\* completion request
OwnResult(c) ==
    LET answer == c.llm_calls[1].outcome IN
    IF answer.raises
    THEN GenerationFailure(c.symptom, c.details, answer.message)
    ELSE ParseResponse(answer.text, c.symptom, c.details)

\* the queries, hit lists, context, completion request and result of call c
\* are those that follow from c's own arguments and the answers to c's own
\* requests
OwnValuesOnly(c) ==
    /\ Len(c.searches) >= 1 =>
          /\ c.searches[1].query = c.symptom
          /\ c.term_results = HitsOf(c, 1)
    /\ Len(c.searches) >= 2 =>
          /\ c.searches[2].query = c.symptom \o <<" ">> \o c.details
          /\ c.grade_results = HitsOf(c, 2)
    /\ c.pc \in {"generate", "parse", "done"} =>
          IsContextOf(c.context, HitsOf(c, 1) \o HitsOf(c, 2))
    /\ \A i \in DOMAIN c.llm_calls :
          /\ c.llm_calls[i].symptom = c.symptom
          /\ c.llm_calls[i].details = c.details
          /\ c.llm_calls[i].context = c.context
    /\ c.pc = "done" => c.result = OwnResult(c)

\* C17: under every interleaving of the steps of two calls on one
\* SymptomMatcher, each call's queries, hit lists, context, completion request
\* and returned result are at every moment those determined by its own symptom
\* and details and by the backend's answers to its own requests.
C17_CallsDoNotInterfere ==
    /\ OwnValuesOnly(ThisCall)
    /\ OwnValuesOnly(other)

\* both calls are between the completion call and the parse at the same
\* time, with different symptoms, different contexts and different raw texts
C17_Witness ==
    /\ pc = "parse"
    /\ other.pc = "parse"
    /\ symptom # other.symptom
    /\ context # other.context
    /\ context # << >>
    /\ other.context # << >>
    /\ response # other.response

\* ============================================ a call during an indexing run
\* the collection holds the documents of an earlier, complete indexing of a
\* term list that needs two batches; the list is indexed again with
\* reset_collection=True while a match_symptom call is made
InitRace ==
    /\ terms = LongList(TermsPerBatch + 1)
    /\ index = CreateDocuments(terms)
    /\ MatcherIdle
    /\ other = StartCall(<<"headache">>, << >>)
    /\ IngestIdle
    /\ reply = NoReply
    /\ processor = NoProcessor
    /\ run = "first"
    /\ RunStart
    /\ writes = << >>
    /\ counts = << >>

\* the steps of the indexing run and of the call, in any order
NextRace ==
    \/ IxReset
    \/ IxCreate
    \/ IxCleanup
    \/ IxConnect
    \/ IxBuild
    \/ IxBatch
    \/ IxReturn
    \/ OtherSearchTerms
    \/ OtherSearchGrades
    \/ OtherAssemble
    \/ OtherGenerate(SampleTexts)
    \/ OtherParse

SpecRace == InitRace /\ [][NextRace]_vars

\* the number of documents of the fully populated collection
FullCount == Len(CreateDocuments(terms))

\* the number of documents the first n batch writes of the run stored
StoredByWrites(n) == SumSucceeded(SubSeq(writes, 1, n))

\* C18: a search of a call that interleaves with an indexing run with
\* reset=true sees the collection as the run has left it so far: all the
\* documents before the deletion, none after a successful deletion until a
\* batch is written, then only the documents of the batches written so far;
\* a search that sees no document returns no hit.
C18_SearchSeesRunInProgress ==
    \A i \in DOMAIN other.observed :
        LET o == other.observed[i] IN
        /\ o.deletion = "" => o.ntagged = FullCount
        /\ o.deletion = "ok" => o.ntagged = StoredByWrites(o.nwrites)
        /\ o.deletion = "failed" => o.ntagged = FullCount + StoredByWrites(o.nwrites)
        /\ o.ntagged = 0 => other.searches[i].outcome.hits = << >>

\* the run deleted the collection and wrote both batches, so the collection
\* is fully populated again; the call's term search ran after the deletion
\* and saw an empty collection, its grade search ran after the first batch
\* and saw only part of the documents
C18_Witness ==
    /\ ix_pc = "returned"
    /\ deletion = "ok"
    /\ \A j \in DOMAIN writes : writes[j].ok
    /\ Tagged(index) = CreateDocuments(terms)
    /\ Len(other.observed) = 2
    /\ other.observed[1].ntagged = 0
    /\ ~other.searches[1].outcome.raises
    /\ other.observed[2].ntagged > 0
    /\ other.observed[2].ntagged < FullCount
    /\ other.pc = "done"

\* ------------------------------------------------------- the call's effects
\* the two calls had the same arguments and got the same answers from the
\* backend and from the language model
SameInputsAndAnswers ==
    /\ other.symptom = symptom
    /\ other.details = details
    /\ Len(other.searches) = Len(searches)
    /\ \A i \in DOMAIN searches : other.searches[i].outcome = searches[i].outcome
    /\ Len(other.llm_calls) = Len(llm_calls)
    /\ \A i \in DOMAIN llm_calls : other.llm_calls[i].outcome = llm_calls[i].outcome

\* both calls have returned
BothDone == pc = "done" /\ other.pc = "done"

\* C20: no step of a match_symptom call changes the index content, and two
\* calls that had the same arguments and got the same answers from the
\* backend and the language model return the same result, in whichever
\* order they ran.
C20_ReadOnlyNoCarryOver ==
    [][ /\ index' = index
        /\ (BothDone /\ SameInputsAndAnswers)' => result' = other'.result ]_vars

\* two calls with the same arguments and the same answers have returned the
\* same parsed object, over the collection they started with
C20_Witness ==
    /\ BothDone
    /\ SameInputsAndAnswers
    /\ index = SampleIndex
    /\ Len(searches) = 2
    /\ searches[1].outcome.hits # << >>
    /\ result = other.result
    /\ "error" \notin DOMAIN result

\* ========================================================== the ingestion
\* ------------------------------------------------------ cells of the sheet
\* the value pandas gives for a cell that is empty or missing: float nan
NaN == <<"float", "nan">>

\* a cell that holds text
TextCell(text) == <<"str", text>>

\* bool(cell): nan is a non-zero float and therefore true; a str is true
\* when it is not empty
CellTruthy(cell) == cell = NaN \/ (cell[1] = "str" /\ cell[2] # "")

\* pd.notna(cell)
NotNa(cell) == cell # NaN

\* str(cell)
Str(cell) == IF cell = NaN THEN "nan" ELSE cell[2]

\* a row of the sheet: its cells under the mapped columns
Row(term, g1, g2, g3, g4, g5) ==
    [code |-> TextCell("10028813"), soc |-> TextCell("Gastrointestinal disorders"),
     term |-> term, definition |-> NaN, grade |-> <<g1, g2, g3, g4, g5>>]

\* what the term cell of a row is: text, the empty string, or empty (nan)
TermCells == {TextCell("Nausea"), TextCell(""), NaN}

\* the rows the sheets are made of: for each term cell, rows with no grade
\* text (cells empty, or holding the empty string), with every grade, with
\* the first grade only, and with a sparse subset of the grades
SampleRows ==
    UNION { { Row(t, NaN, NaN, NaN, NaN, NaN),
              Row(t, TextCell(""), NaN, TextCell(""), NaN, NaN),
              Row(t, TextCell("mild"), TextCell("moderate"), TextCell("severe"),
                  TextCell("life-threatening"), TextCell("death")),
              Row(t, TextCell("mild"), NaN, NaN, NaN, NaN),
              Row(t, NaN, TextCell("moderate"), TextCell(""), NaN, TextCell("death")) } :
            t \in TermCells }

\* the most rows of a sheet
MaxRows == 2

\* the sequences of at most n sample rows
RECURSIVE RowListsUpTo(_)
RowListsUpTo(n) ==
    IF n = 0 THEN { << >> }
    ELSE LET shorter == RowListsUpTo(n - 1)
         IN  shorter \cup { Append(l, r) : l \in {x \in shorter : Len(x) = n - 1},
                                           r \in SampleRows }

\* the grade columns the column mapping can hold: Grade 1 to Grade 3 are
\* required, Grade 4 and Grade 5 are mapped when the sheet has them
GradeColumnSets == { {"1", "2", "3"}, {"1", "2", "3", "4", "5"} }

\* --------------------------------------------------------- process_ctcae
\* the grade loop from grade_num on: an entry for each mapped grade column
\* whose cell is not nan and is true
RECURSIVE RowGrades(_, _, _)
RowGrades(row, mapped, grade_num) ==
    IF grade_num > Len(row.grade) THEN << >>
    ELSE (IF /\ ToString(grade_num) \in mapped
             /\ NotNa(row.grade[grade_num])
             /\ CellTruthy(row.grade[grade_num])
          THEN <<Grade(ToString(grade_num), Str(row.grade[grade_num]))>>
          ELSE << >>)
         \o RowGrades(row, mapped, grade_num + 1)

\* the term dictionary built from a row
RowTerm(row, mapped) ==
    [meddra_code |-> Str(row.code), meddra_soc |-> row.soc, ctcae_term |-> row.term,
     definition |-> row.definition, navigational_note |-> TextCell(""),
     grades |-> RowGrades(row, mapped, 1)]

\* terms after the body of the row loop has run for a row: the row is
\* skipped when its term cell is false, and when it gave no grade entry
TermsAfterRow(so_far, row, mapped) ==
    IF ~CellTruthy(row.term) THEN so_far
    ELSE IF RowTerm(row, mapped).grades = << >> THEN so_far
    ELSE Append(so_far, RowTerm(row, mapped))

\* a sheet with the required columns was found and its columns are mapped
InitIngest ==
    /\ index = << >>
    /\ MatcherIdle
    /\ IndexerIdle
    /\ other = IdleCall
    /\ reply = NoReply
    /\ processor = NoProcessor
    /\ sheet \in [mapped : GradeColumnSets, rows : RowListsUpTo(MaxRows)]
    /\ row_i = 0
    /\ records = << >>
    /\ ing_pc = "rows"

\* one iteration of the row loop
IngestRow ==
    /\ ing_pc = "rows"
    /\ row_i < Len(sheet.rows)
    /\ records' = TermsAfterRow(records, sheet.rows[row_i + 1], sheet.mapped)
    /\ row_i' = row_i + 1
    /\ UNCHANGED <<sheet, ing_pc>>
    /\ UNCHANGED <<index, other, reply, processor>>
    /\ UNCHANGED mvars
    /\ UNCHANGED ixvars

\* the loop is over: the record list is written to the output file
IngestSave ==
    /\ ing_pc = "rows"
    /\ row_i = Len(sheet.rows)
    /\ ing_pc' = "written"
    /\ UNCHANGED <<sheet, row_i, records>>
    /\ UNCHANGED <<index, other, reply, processor>>
    /\ UNCHANGED mvars
    /\ UNCHANGED ixvars

NextIngest ==
    \/ IngestRow
    \/ IngestSave

SpecIngest == InitIngest /\ [][NextIngest]_vars

\* ------------------------------------------------ claims on the ingestion
\* a cell that holds no term name: empty or missing, or the empty string
NoTermName(cell) == cell = NaN \/ cell = TextCell("")

\* the row has text in one of the mapped grade columns
HasGradeText(row, mapped) ==
    \E n \in DOMAIN row.grade :
        /\ ToString(n) \in mapped
        /\ row.grade[n] # NaN
        /\ row.grade[n] # TextCell("")

\* the rows of the sheet that are to be kept: a term name and some grade text
KeptRows ==
    {i \in DOMAIN sheet.rows :
        ~NoTermName(sheet.rows[i].term) /\ HasGradeText(sheet.rows[i], sheet.mapped)}

\* the number a grade string stands for
GradeValue(g) == CHOOSE n \in 1..5 : ToString(n) = g

\* C19: every record of the list process_ctcae writes has a non-empty
\* ctcae_term and at least one grade, its grades in strictly ascending order,
\* each in "1".."5" with a non-empty description; rows whose term cell is empty
\* or missing and rows with no grade text are excluded, so the list has one
\* record per remaining row.
C19_RecordsWellFormed ==
    ing_pc = "written" =>
      /\ \A r \in DOMAIN records :
            /\ records[r].ctcae_term # NaN
            /\ records[r].ctcae_term # TextCell("")
            /\ records[r].grades # << >>
            /\ \A g \in DOMAIN records[r].grades :
                  /\ records[r].grades[g].grade \in GradeNumbers
                  /\ records[r].grades[g].description # ""
            /\ \A g, h \in DOMAIN records[r].grades :
                  g < h => GradeValue(records[r].grades[g].grade)
                           < GradeValue(records[r].grades[h].grade)
      /\ Len(records) = Cardinality(KeptRows)

\* ================================================ constructing the matcher
\* SymptomMatcher(...) is being constructed over a collection that is empty,
\* populated, or populated with an initialization document an earlier
\* construction left; setup_vector_store is called with reset_collection=False,
\* so it starts at the creation of the store
InitConstruct ==
    /\ index \in {<< >>, SampleIndex, Append(SampleIndex, InitDocument)}
    /\ MatcherIdle
    /\ other = IdleCall
    /\ IngestIdle
    /\ reply = NoReply
    /\ processor = NoProcessor
    /\ terms = << >>
    /\ run = "first"
    /\ ix_pc = "create"
    /\ deletion = ""
    /\ documents = << >>
    /\ batch_i = 0
    /\ total_added = 0
    /\ start_len = 0
    /\ writes = << >>
    /\ counts = << >>

\* setup_vector_store returned the store: __init__ keeps it as
\* self.vector_store, creates the language model and the prompt, and returns
ConstructorReturn ==
    /\ ix_pc = "build"
    /\ ix_pc' = "constructed"
    /\ UNCHANGED <<index, terms, run, deletion, documents, batch_i, total_added,
                   start_len, writes, counts>>
    /\ UNCHANGED mvars
    /\ UNCHANGED other
    /\ UNCHANGED ingvars
    /\ UNCHANGED reply
    /\ UNCHANGED processor

\* match_symptom is called on the constructed matcher
StartMatch ==
    /\ ix_pc = "constructed"
    /\ pc = "idle"
    /\ symptom' \in Symptoms
    /\ details' \in DetailsValues
    /\ pc' = "terms"
    /\ UNCHANGED <<index, searches, term_results, grade_results, context, llm_calls,
                   response, result, exc>>
    /\ UNCHANGED ixvars
    /\ UNCHANGED other
    /\ UNCHANGED ingvars
    /\ UNCHANGED reply
    /\ UNCHANGED processor

\* the construction, then a call
NextConstruct ==
    \/ IxCreate
    \/ IxCleanup
    \/ IxConnect
    \/ ConstructorReturn
    \/ StartMatch
    \/ SearchTerms
    \/ SearchGrades
    \/ Assemble
    \/ Generate(SampleTexts)
    \/ Parse

SpecConstruct == InitConstruct /\ [][NextConstruct]_vars

\* ------------------------------------------- claims on the construction
\* no search was answered with the initialization document and no context
\* holds the block it would be rendered as
NoInitDocumentShown ==
    /\ \A i \in DOMAIN searches :
          \A h \in DOMAIN searches[i].outcome.hits :
              "doc_type" \in DOMAIN searches[i].outcome.hits[h].metadata
    /\ \A k \in DOMAIN context : context[k] # <<"CTCAE Term: ", "None">>
    /\ \A i \in DOMAIN llm_calls :
          \A k \in DOMAIN llm_calls[i].context :
              llm_calls[i].context[k] # <<"CTCAE Term: ", "None">>

\* C21: no step of the construction of a SymptomMatcher, nor of a call on
\* it, changes the doc_type-tagged documents of the collection; a step that
\* changes the collection adds the untagged initialization document or
\* removes it again; and that document is in no search answer and in no
\* context, whether it was removed or stayed.
C21_ConstructionKeepsDocuments ==
    [][ /\ Tagged(index') = Tagged(index)
        /\ index' # index =>
              \/ index' = Append(index, InitDocument)
              \/ index = Append(index', InitDocument)
        /\ NoInitDocumentShown' ]_vars

\* a matcher was constructed over a populated collection that already held
\* an initialization document; a second one was added and not removed, and a
\* call on the matcher returned after searches with hits
C21_Witness ==
    /\ index = SampleIndex \o <<InitDocument, InitDocument>>
    /\ ix_pc = "constructed"
    /\ pc = "done"
    /\ searches[1].outcome.hits # << >>
    /\ searches[2].outcome.hits # << >>
    /\ context # << >>
    /\ NoInitDocumentShown

\* ====================================================== the /match handler
\* the fields SymptomResponse requires, all of them str
ResponseFields ==
    {"ctcae_term", "grade", "grade_description", "meddra_soc", "confidence",
     "rationale", "original_symptom"}

\* the value validates as SymptomResponse: every required field is there and
\* a str, and details, when there, is a str or None
ValidResponse(res) ==
    /\ ResponseFields \subseteq DOMAIN res
    /\ \A key \in ResponseFields : res[key][1] = "str"
    /\ "details" \in DOMAIN res => res["details"][1] \in {"str", "None"}

\* the response body: the fields of SymptomResponse, details None by default,
\* other keys of the returned dict left out
ResponseBody(res) ==
    [key \in ResponseFields \cup {"details"} |->
        IF key \in DOMAIN res THEN res[key] ELSE PyNone]

\* the response to an HTTPException(status_code=500, detail=...), and to an
\* exception the framework turns into an internal server error
HttpError(detail) == [status |-> 500, detail |-> detail]

\* the response when the handler returned a value that validates
HttpOk(res) == [status |-> 200, body |-> ResponseBody(res)]

\* a handler that does not look for the error key
ErrorCheckSkipped(res) == FALSE

\* "error" in result
HasError(res) == "error" \in DOMAIN res

\* the response of the handler to a match_symptom call that raised: the
\* except clause turns the exception into HTTPException(500, str(e))
ReplyToException(e) == HttpError(<<"str", e>>)

\* the response of the handler to the dict match_symptom returned: with an
\* error key HTTPException(500, result["error"]) is raised inside the try,
\* caught by the except clause and raised again as HTTPException(500, str(e));
\* otherwise the dict is returned and validated against the response model
ReplyToResult(res) ==
    IF HasError(res) THEN HttpError(<<"str(HTTPException)", res["error"]>>)
    ELSE IF ValidResponse(res) THEN HttpOk(res)
    ELSE HttpError(<<"ResponseValidationError">>)

\* an answer with every key the prompt asks for, and the same with an error
\* key besides
CompleteObject ==
    <<"{", "ctcae_term", ",", "grade", ",", "grade_description", ",", "meddra_soc",
      ",", "confidence", ",", "rationale", "}">>

CompleteObjectWithError ==
    <<"{", "ctcae_term", ",", "grade", ",", "grade_description", ",", "meddra_soc",
      ",", "confidence", ",", "rationale", ",", "error", "}">>

\* the texts the language model returns to the calls the handler makes
ApiTexts == SampleTexts \cup {CompleteObject, CompleteObjectWithError}

\* the handler responds once match_symptom has returned or raised
Respond ==
    /\ reply = NoReply
    /\ pc \in {"done", "raised"}
    /\ reply' = IF pc = "raised" THEN ReplyToException(exc) ELSE ReplyToResult(result)
    /\ UNCHANGED index
    /\ UNCHANGED mvars
    /\ UNCHANGED ixvars
    /\ UNCHANGED other
    /\ UNCHANGED ingvars
    /\ UNCHANGED processor

\* a request to /match: the handler calls match_symptom and responds
NextApi ==
    \/ SearchTerms
    \/ SearchGrades
    \/ Assemble
    \/ Generate(ApiTexts)
    \/ Parse
    \/ Respond

SpecApi == Init /\ [][NextApi]_vars

\* --------------------------------------------------- claims on the handler
\* the handler has responded
Replied == reply # NoReply

\* C22: when the handler has responded, the status is 500 if match_symptom
\* raised or returned a dict with an error key; the status is 200 only if
\* match_symptom returned a dict without an error key, and the body then
\* holds the values of that dict; there is no other status.
C22_FailureNeverSuccess ==
    Replied =>
      /\ reply.status \in {200, 500}
      /\ (Raised \/ (Returned /\ "error" \in DOMAIN result)) => reply.status = 500
      /\ reply.status = 200 =>
            /\ Returned
            /\ "error" \notin DOMAIN result
            /\ \A key \in DOMAIN reply.body :
                  key \in DOMAIN result => reply.body[key] = result[key]

\* match_symptom returned the model's object, which has every field of the
\* response model and an error key besides, and the handler answered 500
C22_Witness ==
    /\ Replied
    /\ Returned
    /\ ResponseFields \subseteq DOMAIN result
    /\ "error" \in DOMAIN result
    /\ reply.status = 500

\* ====================================================== the term repository
\* a str is the sequence of its characters; these are the characters the
\* names, texts and queries are made of
Chars == {"a", "A", "b", "B"}

\* the longest query and name a caller passes
MaxQuery == 2

\* the strs of at most n characters
RECURSIVE StringsUpTo(_)
StringsUpTo(n) ==
    IF n = 0 THEN {<< >>}
    ELSE LET shorter == StringsUpTo(n - 1) IN
         shorter \cup {Append(s, c) : s \in shorter, c \in Chars}

\* str.lower() of one character
LowerChar(c) == CASE c = "A" -> "a" [] c = "B" -> "b" [] OTHER -> c

\* str.lower()
Lower(s) == [i \in 1..Len(s) |-> LowerChar(s[i])]

\* q in text, for two strs
Contains(text, q) ==
    \E i \in 0..(Len(text) - Len(q)) : SubSeq(text, i + 1, i + Len(q)) = q

\* d.get(key, default)
DictGet(d, key, default) == IF key \in DOMAIN d THEN d[key] ELSE default

\* what json.load gives for the entries process_ctcae wrote: a str for a cell
\* with text, float nan for a cell that was empty
GradeRecord(grade, description) == [grade |-> PyStr(grade), description |-> description]

TermRecord(name, definition, soc, grades) ==
    [ctcae_term |-> name, definition |-> definition, meddra_soc |-> PyStr(soc),
     grades |-> grades]

\* the term dictionaries the loaded lists are made of: two whose names differ
\* in case only, the first matching "a" in its name and in two of its grades;
\* one written from a row whose definition cell was empty; one written from a
\* row whose term cell was empty; and one of a file that has none of the keys
\* the methods read
SampleRecords ==
    { TermRecord(PyStr(<<"A", "b">>), PyStr(<<"b">>), <<"a">>,
                 <<GradeRecord(<<"1">>, PyStr(<<"a">>)),
                   GradeRecord(<<"2">>, PyStr(<<"a", "B">>))>>),
      TermRecord(PyStr(<<"a", "B">>), PyStr(<<"B", "B">>), <<"b">>,
                 <<GradeRecord(<<"1">>, PyStr(<<"b">>))>>),
      TermRecord(PyStr(<<"B">>), NaN, <<"a">>,
                 <<GradeRecord(<<"2">>, PyStr(<<"A", "a">>))>>),
      TermRecord(NaN, PyStr(<<"a">>), <<"b">>,
                 <<GradeRecord(<<"3">>, PyStr(<<"b">>))>>),
      [meddra_code |-> PyStr(<<"1">>)] }

\* the most term dictionaries of a loaded list
MaxRepo == 2

\* the lists of at most n sample term dictionaries
RECURSIVE RecordListsUpTo(_)
RecordListsUpTo(n) ==
    IF n = 0 THEN {<< >>}
    ELSE LET shorter == RecordListsUpTo(n - 1) IN
         shorter \cup {Append(l, r) : l \in shorter, r \in SampleRecords}

\* the category lists of the loaded files
CategoryLists == {<< >>, <<PyStr(<<"a">>)>>, <<PyStr(<<"a">>), PyStr(<<"b">>)>>}

\* a method returned value (a dictionary d as <<"dict", d>>), which is or
\* is made of the dictionaries of self.terms at the positions at (0 and
\* << >> when of none); or it raised
Gives(value, at) == [raises |-> FALSE, value |-> value, at |-> at]
Throws(e) == [raises |-> TRUE, value |-> e, at |-> 0]

\* get_term_by_name, its loop from the i-th term dictionary on
RECURSIVE NameScan(_, _, _)
NameScan(ts, name, i) ==
    IF i > Len(ts) THEN Gives(PyNone, 0)
    ELSE LET v == DictGet(ts[i], "ctcae_term", PyStr(<< >>)) IN
         IF v[1] # "str" THEN Throws("AttributeError")
         ELSE IF Lower(v[2]) = Lower(name) THEN Gives(<<"dict", ts[i]>>, i)
         ELSE NameScan(ts, name, i + 1)

get_term_by_name(ts, name) == NameScan(ts, name, 1)

\* get_grade_description: None when no term was found or the term found is
\* the empty dictionary; else the description of its first grade entry with
\* this grade, None when the entry has no description or there is no entry
get_grade_description(ts, term_name, grade) ==
    LET found == get_term_by_name(ts, term_name) IN
    IF found.raises THEN found
    ELSE IF found.at = 0 THEN Gives(PyNone, 0)
    ELSE IF DOMAIN ts[found.at] = {} THEN Gives(PyNone, 0)
    ELSE LET gs == DictGet(ts[found.at], "grades", << >>)
             same == {j \in 1..Len(gs) :
                        LET g == DictGet(gs[j], "grade", PyNone) IN
                        g[1] = "str" /\ g[2] = grade}
         IN  IF same = {} THEN Gives(PyNone, 0)
             ELSE Gives(DictGet(gs[SetMin(same)], "description", PyNone), found.at)

\* get_term_categories: a new list with the elements of self.categories,
\* which shares nothing with it
get_term_categories(cats) == [list |-> cats, shares |-> FALSE, changed |-> FALSE]

\* the positions in seq of the elements of at, in ascending order
RECURSIVE Ascending(_)
Ascending(at) ==
    IF at = {} THEN << >> ELSE <<SetMin(at)>> \o Ascending(at \ {SetMin(at)})

\* the term dictionaries at these positions
TermsAt(ts, at) == [j \in 1..Len(at) |-> ts[at[j]]]

\* get_terms_by_category
get_terms_by_category(ts, category) ==
    LET at == Ascending({i \in 1..Len(ts) :
                           LET v == DictGet(ts[i], "meddra_soc", PyNone) IN
                           v[1] = "str" /\ v[2] = category})
    IN  Gives(TermsAt(ts, at), at)

\* search_terms, the loop over the grades of a term from the j-th on (q is
\* the lowered query): "append" when a description has q in it, "raise" when
\* a description before that is not a str, "skip" when the list is exhausted
RECURSIVE GradeScan(_, _, _)
GradeScan(gs, q, j) ==
    IF j > Len(gs) THEN "skip"
    ELSE LET d == DictGet(gs[j], "description", PyStr(<< >>)) IN
         IF d[1] # "str" THEN "raise"
         ELSE IF Contains(Lower(d[2]), q) THEN "append"
         ELSE GradeScan(gs, q, j + 1)

\* search_terms, the body of the loop for one term: the name, then the
\* definition, then the grades
TermStep(term, q) ==
    LET name == DictGet(term, "ctcae_term", PyStr(<< >>))
        definition == DictGet(term, "definition", PyStr(<< >>))
    IN  IF name[1] # "str" THEN "raise"
        ELSE IF Contains(Lower(name[2]), q) THEN "append"
        ELSE IF definition[1] # "str" THEN "raise"
        ELSE IF Contains(Lower(definition[2]), q) THEN "append"
        ELSE GradeScan(DictGet(term, "grades", << >>), q, 1)

\* search_terms, its loop from the i-th term dictionary on: the positions
\* appended, or "raise"
RECURSIVE SearchScan(_, _, _)
SearchScan(ts, q, i) ==
    IF i > Len(ts) THEN << >>
    ELSE LET step == TermStep(ts[i], q) IN
         IF step = "raise" THEN <<0>>
         ELSE LET rest == SearchScan(ts, q, i + 1) IN
              IF rest = <<0>> THEN rest
              ELSE IF step = "append" THEN <<i>> \o rest
              ELSE rest

search_terms(ts, query) ==
    LET at == SearchScan(ts, Lower(query), 1) IN
    IF at = <<0>> THEN Throws("AttributeError") ELSE Gives(TermsAt(ts, at), at)

\* ------------------------------------------------- calls on the repository
\* a CTCAEProcessor after its constructor: the lists of the file, or two
\* empty lists when the file could not be read
InitProcessor ==
    /\ index = << >>
    /\ MatcherIdle
    /\ IndexerIdle
    /\ other = IdleCall
    /\ IngestIdle
    /\ reply = NoReply
    /\ \E ts \in RecordListsUpTo(MaxRepo), cats \in CategoryLists :
          processor = [terms |-> ts, categories |-> cats, call |-> << >>,
                       outcome |-> << >>,
                       held |-> [list |-> << >>, shares |-> FALSE, changed |-> FALSE]]

\* what no call on the processor touches
ProcessorFrame ==
    /\ UNCHANGED index
    /\ UNCHANGED mvars
    /\ UNCHANGED ixvars
    /\ UNCHANGED other
    /\ UNCHANGED ingvars
    /\ UNCHANGED reply

\* a call finds the two lists as the call before it left them and leaves
\* no other state behind, so that the calls followed here are the first call
\* and the call after get_term_categories, whose list the caller may have
\* changed in between
FirstOrAfterCategories == processor.call \in {<< >>, <<"get_term_categories">>}

CallGetTermByName ==
    /\ FirstOrAfterCategories
    /\ \E name \in StringsUpTo(MaxQuery) :
          processor' = [processor EXCEPT
                           !.call = <<"get_term_by_name", name>>,
                           !.outcome = get_term_by_name(processor.terms, name)]
    /\ ProcessorFrame

CallGetGradeDescription ==
    /\ FirstOrAfterCategories
    /\ \E name \in StringsUpTo(MaxQuery), grade \in {<<"1">>, <<"2">>} :
          processor' = [processor EXCEPT
                           !.call = <<"get_grade_description", name, grade>>,
                           !.outcome = get_grade_description(processor.terms, name, grade)]
    /\ ProcessorFrame

CallGetTermCategories ==
    /\ FirstOrAfterCategories
    /\ processor' = [processor EXCEPT
                        !.call = <<"get_term_categories">>,
                        !.outcome = Gives(processor.categories, << >>),
                        !.held = get_term_categories(processor.categories)]
    /\ ProcessorFrame

CallGetTermsByCategory ==
    /\ FirstOrAfterCategories
    /\ \E category \in {<<"a">>, <<"b">>, <<"B">>} :
          processor' = [processor EXCEPT
                           !.call = <<"get_terms_by_category", category>>,
                           !.outcome = get_terms_by_category(processor.terms, category)]
    /\ ProcessorFrame

CallSearchTerms ==
    /\ FirstOrAfterCategories
    /\ \E query \in StringsUpTo(MaxQuery) :
          processor' = [processor EXCEPT
                           !.call = <<"search_terms", query>>,
                           !.outcome = search_terms(processor.terms, query)]
    /\ ProcessorFrame

\* the caller appends to the list it got from get_term_categories; a list
\* that is self.categories itself changes with it
MutateHeld ==
    /\ processor.call = <<"get_term_categories">>
    /\ ~processor.held.changed
    /\ LET longer == Append(processor.held.list, PyStr(<<"B">>)) IN
       processor' = [processor EXCEPT
                        !.held.list = longer,
                        !.held.changed = TRUE,
                        !.categories = IF processor.held.shares THEN longer ELSE @]
    /\ ProcessorFrame

NextProcessor ==
    \/ CallGetTermByName
    \/ CallGetGradeDescription
    \/ CallGetTermCategories
    \/ CallGetTermsByCategory
    \/ CallSearchTerms
    \/ MutateHeld

SpecProcessor == InitProcessor /\ [][NextProcessor]_vars

\* ------------------------------------------------ claims on the repository
\* the str value v and the str s are equal, case ignored (a dictionary
\* without the key counts as one with the empty str)
EqualIgnoringCase(v, s) ==
    /\ v[1] = "str"
    /\ Len(v[2]) = Len(s)
    /\ \A k \in 1..Len(s) : LowerChar(v[2][k]) = LowerChar(s[k])

\* the str q is in the str value v somewhere, case ignored
InIgnoringCase(v, q) ==
    /\ v[1] = "str"
    /\ \E i \in 0..(Len(v[2]) - Len(q)) :
          \A k \in 1..Len(q) : LowerChar(v[2][i + k]) = LowerChar(q[k])

\* the last call was this method
Called(method) == processor.call # << >> /\ processor.call[1] = method

\* the positions of the term dictionaries with this name, case ignored
Named(name) ==
    {i \in 1..Len(processor.terms) :
        EqualIgnoringCase(DictGet(processor.terms[i], "ctcae_term", PyStr(<< >>)), name)}

\* get_term_by_name returned the first term dictionary with the name, or None
FirstNamedOrNone ==
    Called("get_term_by_name") =>
       /\ ~processor.outcome.raises
       /\ processor.outcome.at = (IF Named(processor.call[2]) = {} THEN 0
                                  ELSE SetMin(Named(processor.call[2])))
       /\ processor.outcome.value
             = (IF Named(processor.call[2]) = {} THEN PyNone
                ELSE <<"dict", processor.terms[SetMin(Named(processor.call[2]))]>>)

\* C23: no call of the five methods, and no change a caller makes to the list
\* get_term_categories returned, changes the term list or the category list
\* of the processor; and get_term_by_name returns the first term dictionary
\* in list order whose ctcae_term equals the name with case ignored, None
\* when there is none.
C23_ReadOnlyFirstMatch ==
    [][ /\ processor'.terms = processor.terms
        /\ processor'.categories = processor.categories
        /\ FirstNamedOrNone' ]_vars

\* the term dictionary has the query in its name, its definition or one of
\* its grade descriptions, case ignored
QueryInTerm(term, q) ==
    \/ InIgnoringCase(DictGet(term, "ctcae_term", PyStr(<< >>)), q)
    \/ InIgnoringCase(DictGet(term, "definition", PyStr(<< >>)), q)
    \/ \E j \in 1..Len(DictGet(term, "grades", << >>)) :
          InIgnoringCase(DictGet(DictGet(term, "grades", << >>)[j], "description",
                                 PyStr(<< >>)), q)

\* C24: search_terms returns the term dictionaries that have the query, case
\* ignored, in the name, the definition or a grade description: all of them
\* and no other, in list order, each once.
C24_SearchExact ==
    Called("search_terms") =>
       /\ ~processor.outcome.raises
       /\ {processor.outcome.at[j] : j \in 1..Len(processor.outcome.at)}
             = {i \in 1..Len(processor.terms) :
                   QueryInTerm(processor.terms[i], processor.call[2])}
       /\ \A j \in 1..(Len(processor.outcome.at) - 1) :
             processor.outcome.at[j] < processor.outcome.at[j + 1]
       /\ processor.outcome.value = TermsAt(processor.terms, processor.outcome.at)

====
